---- MODULE Spec2Model ----
(***************************************************************************)
(* Incremental export decision engine of the EmmyLuaIntelliSense plugin.   *)
(*                                                                         *)
(* Two manager variants live in the repository:                            *)
(*   - the hash-based manager (src/unnamed/part_000): asynchronous scan,   *)
(*     memoized type fingerprints, hash cache;                             *)
(*   - the file-watcher manager (LuaExportManager.cpp): synchronous scan,  *)
(*     timestamp or hash comparison, directory watcher.                    *)
(*                                                                         *)
(* Strings (FString) are sequences of one-character strings; the empty     *)
(* FString is the empty sequence.  Path segments are abbreviated to one    *)
(* letter: "G" stands for "Game", "S" for "Script", "N" for "Native".      *)
(***************************************************************************)
EXTENDS Integers, Sequences, FiniteSets, TLC

VARIABLES
    \* ---- hash-based manager: members of ULuaExportManager
    bInitialized,
    PendingBlueprints,          \* TSet<FString>, in insertion order
    PendingNativeTypes,         \* TSet<TWeakObjectPtr<const UField>>, in insertion order
    ExportedFilesHashCache,     \* TMap<FString, FString>
    FieldHashCache,             \* TMap<const UField*, FString>
    FieldHashCacheTimestamp,    \* TMap<const UField*, double>
    bIsAsyncScanningInProgress,
    bScanCancelled,
    \* ---- function-local statics of ShouldExcludeFromExport
    bPathsLoaded,
    ExcludedPaths,
    \* ---- tasks in flight
    scanStage,                  \* "none" | "dispatched" | "enumerated"
    scanBlueprintAssets,        \* BlueprintAssets captured by the background lambda
    scanNativeTypes,            \* NativeTypes captured by the background lambda
    scansInFlight,              \* background tasks dispatched, completion not yet run
    \* ---- sliced drain
    ScannedBlueprintAssets,     \* snapshot array of assets
    ScannedNativeTypes,         \* snapshot array of reflected types
    bIsFramedProcessingInProgress,
    CurrentBlueprintIndex,      \* 0-based cursor into ScannedBlueprintAssets
    CurrentNativeTypeIndex,     \* 0-based cursor into ScannedNativeTypes
    framedTimer,                \* the timer manager that holds the timer of
                                \* FramedProcessingTimerHandle: "editor", "play", "none"
    playWorld,                  \* a play-in-editor world is current
    orphanTimer,                \* the editor world holds a repeating timer on
                                \* ProcessFramedStepWrapper that the handle has lost
    framedAtStart,              \* pending sets and snapshot arrays when the drain started
    framedLog,                  \* per invocation of ProcessFramedStep: the items it
                                \* handled, the progress it showed, the cursors it
                                \* left and the bool it returned
    \* ---- host: settings, files, reflected types, clock
    bExportBlueprintFiles,
    bAutoStartScanOnStartup,
    configFile,                 \* Resources/ExcludedPaths.json: [kind, paths]
    cacheFile,                  \* Intermediate/ExportCache.json: [kind, HashCache]
    diskWritable,               \* whether SaveStringToFile on the cache file succeeds
    files,                      \* .uasset file of each package: [exists, readable, content]
    typeShape,                  \* shape (members, functions) of each reflected type
    typeLife,                   \* "live" | "destroying" | "freed" | "gone"
    now,                        \* FPlatformTime::Seconds()
    envChanges,                 \* number of host changes so far
    \* ---- observations of the run, read by the properties only
    configAtLoad,               \* what the config file was when the rule set was loaded
    last,                       \* what the last manager operation did
    idem,                       \* "none" | "scanned" | "drained" | "repeated": progress of
                                \* a scan / drain / scan sequence without changes
    \* ---- file-watcher manager: what it has beyond the members above
    ExportedFilesCache,         \* TMap<FString, FDateTime>
    FileComparisonMethod,       \* setting: "Timestamp" | "Hash"
    fileTime,                   \* modification time of each package's .uasset file
    LastNativeTypesCheckTime,   \* double: when the native-type check last ran
    LastNativeTypesCount,       \* static int32 of CheckNativeTypesChanges
    bFirstCheck,                \* static bool of CheckNativeTypesChanges
    checkTimers,                \* due times of the one-shot timers set by OnDirectoryChanged
    prevCheck,                  \* observation: time and type count of the last check that
                                \* passed the throttle
    uncheckedChange,            \* observation: a source file change was notified and no
                                \* check has passed the throttle since
    \* ---- the const queries called on their own (one call per behaviour)
    fnPhase,        \* "idle" | "excludeInput" | "excluded" | "reexportInput" | "reexport"
    fnRules,        \* the static ExcludedPaths set the call sees
    fnPath,         \* AssetPath argument
    fnHash,         \* AssetHash argument (fresh fingerprint)
    fnCache,        \* ExportedFilesHashCache the call sees
    fnResult,       \* returned bool
    fnIterations,   \* iterations of the prefix-stripping while loop
    fnCacheAfter,   \* ExportedFilesHashCache after the call
    \* ---- a fingerprint computed twice (one pair of calls per behaviour)
    fnVia,          \* "path" | "field" | "memo": GetAssetHash(const FString&),
                    \* GetAssetHash(const UField*), GetCachedFieldHash
    fnFirst,        \* string returned by the first call
    fnSecond,       \* string returned by the second call
    fnArtifact      \* what the calls were made on: files and reflected types at the
                    \* first call, the memo a lookup found, the class descriptions

mgrVars == <<bInitialized, PendingBlueprints, PendingNativeTypes, ExportedFilesHashCache,
             FieldHashCache, FieldHashCacheTimestamp, bIsAsyncScanningInProgress,
             bScanCancelled, bPathsLoaded, ExcludedPaths, cacheFile, configAtLoad>>

\* the sliced drain: members and timer of the manager, and what is observed of it
framedVars == <<ScannedBlueprintAssets, ScannedNativeTypes, bIsFramedProcessingInProgress,
                CurrentBlueprintIndex, CurrentNativeTypeIndex, framedTimer, playWorld,
                orphanTimer, framedAtStart, framedLog>>

\* the background scan task
scanVars == <<scanStage, scanBlueprintAssets, scanNativeTypes, scansInFlight>>

\* work under way: the scan task and the sliced drain
taskVars == <<scanVars, framedVars>>

settingVars == <<bExportBlueprintFiles, bAutoStartScanOnStartup>>

hostVars == <<configFile, diskWritable, files, typeShape, typeLife, now, envChanges>>

fnVars == <<fnPhase, fnRules, fnPath, fnHash, fnCache, fnResult, fnIterations, fnCacheAfter,
            fnVia, fnFirst, fnSecond, fnArtifact>>

\* the variables of the fingerprint pair
pairVars == <<fnVia, fnFirst, fnSecond, fnArtifact>>

\* the native-type check of the file-watcher manager
watchVars == <<LastNativeTypesCheckTime, LastNativeTypesCount, bFirstCheck, checkTimers,
               prevCheck, uncheckedChange>>

fwVars == <<ExportedFilesCache, FileComparisonMethod, fileTime, watchVars>>

\* what the operations of the hash-based manager never touch
otherVars == <<fwVars, fnVars>>

vars == <<mgrVars, taskVars, settingVars, hostVars, last, idem, fwVars, fnVars>>

----------------------------------------------------------------------------
(* Bounds of the model *)

\* longest identifier handed to the exclusion filter when it is called on its own
MaxIdLen == 6

\* seconds of the clock followed when it advances one second at a time
MaxSeconds == 10

\* expiry periods of the fingerprint memo followed in the life of a memo
MaxExpiryPeriods == 2

\* most calls of ProcessFramedStepWrapper followed after one StartFramedProcessing
MaxFramedTicks == 4

\* number of distinct contents a file or type shape can take
MaxContent == 2
\* number of host changes (setting changes, file edits, hot reloads, unloads,
\* disk faults, expiry periods elapsing) in one run
MaxEnvChanges == 1

----------------------------------------------------------------------------
(* FString helpers *)

Empty == <<>>

IsEmpty(s) == s = Empty

\* FString::FindLastChar: 1-based position of the last occurrence, 0 if none
FindLastChar(s, c) ==
    LET hits == {i \in 1..Len(s) : s[i] = c}
    IN  IF hits = {} THEN 0 ELSE CHOOSE i \in hits : \A j \in hits : j <= i

\* FString::Left(n): the first n characters
Left(s, n) == SubSeq(s, 1, n)

\* FString::Mid(n): the characters from 0-based index n on
Mid(s, n) == SubSeq(s, n + 1, Len(s))

StartsWith(s, p) == Len(p) <= Len(s) /\ SubSeq(s, 1, Len(p)) = p

EndsWith(s, p) == Len(p) <= Len(s) /\ SubSeq(s, Len(s) - Len(p) + 1, Len(s)) = p

----------------------------------------------------------------------------
(* Exclusion filter *)

\* A plausible slip: compare the rule as a plain string prefix instead of
\* stripping the path at its last '/'.
ParentMatch_StringPrefix(Rules, CurrentPath, n) ==
    [matched    |-> \E r \in Rules : r # CurrentPath /\ StartsWith(CurrentPath, r),
     iterations |-> n]

\* The while loop of ShouldExcludeFromExport: strip CurrentPath at its last
\* '/', as long as that '/' is not the leading one, and look the prefix up.
RECURSIVE ParentMatch(_, _, _)
ParentMatch(Rules, CurrentPath, n) ==
    LET LastSlash == FindLastChar(CurrentPath, "/")
    IN  IF LastSlash > 1
        THEN LET Parent == Left(CurrentPath, LastSlash - 1)
             IN  IF Parent \in Rules
                 THEN [matched |-> TRUE, iterations |-> n + 1]
                 ELSE ParentMatch(Rules, Parent, n + 1)
        ELSE [matched |-> FALSE, iterations |-> n]

\* ShouldExcludeFromExport once the static rule set is loaded
ShouldExcludeFromExport(Rules, AssetPath) ==
    IF AssetPath \in Rules
    THEN TRUE
    ELSE ParentMatch(Rules, AssetPath, 0).matched

----------------------------------------------------------------------------
(* Identifiers of the artifacts of the modelled project *)

\* blueprint object paths: /Game/A.A and /P/B.B (a plugin mount point)
BP1 == <<"/", "G", "/", "A", ".", "A">>
BP2 == <<"/", "P", "/", "B", ".", "B">>
\* the reflected type, named by UObject::GetPathName(): /Script/E.T
T1 == <<"/", "S", "/", "E", ".", "T">>
\* a type of an earlier session that no longer exists: /Script/U.V
T2 == <<"/", "S", "/", "U", ".", "V">>
\* a second reflected type, of a module that only some sessions load: /Script/E.W
T3 == <<"/", "S", "/", "E", ".", "W">>

Blueprints == {BP1, BP2}
Types == {T1}
Ids == Blueprints \cup Types

\* the order in which the asset registry and TObjectIterator enumerate
BlueprintOrder == <<BP1, BP2>>
AllTypeOrder == <<T1, T3>>

\* package names that map to a .uasset file
PackageNames == {<<"/", "G", "/", "A">>, <<"/", "P", "/", "B">>}

\* the rule array of an ExcludedPaths.json that is present: /P, "", /Script/E.T
RuleArray == << <<"/", "P">>, Empty, T1 >>

----------------------------------------------------------------------------
(* Containers *)

Range(s) == {s[i] : i \in 1..Len(s)}

\* TMap::Add: insert or overwrite
Put(f, k, v) == [x \in (DOMAIN f) \cup {k} |-> IF x = k THEN v ELSE f[x]]

\* TMap::Remove
Drop(f, ks) == [x \in (DOMAIN f) \ ks |-> f[x]]

EmptyMap == [x \in {} |-> Empty]

\* TSet::Add on an insertion-ordered set
AddUnique(s, x) == IF x \in Range(s) THEN s ELSE Append(s, x)

----------------------------------------------------------------------------
(* Fingerprints *)

\* FSHA1 over a byte sequence, printed as 40 hex digits: never empty
SHA1(data) == <<"sha1", data>>

\* FMD5::HashAnsiString
MD5(text) == <<"md5", text>>

\* states of a file on disk
Missing == [exists |-> FALSE, readable |-> FALSE, content |-> 0]
Unreadable == [exists |-> TRUE, readable |-> FALSE, content |-> 0]
Present(c) == [exists |-> TRUE, readable |-> TRUE, content |-> c]

FileState(FilePath) == IF FilePath \in DOMAIN files THEN files[FilePath] ELSE Missing

\* FPaths::FileExists
FileExists(FilePath) == FileState(FilePath).exists

\* CalculateFileHash: SHA-1 of the file's bytes, Empty when the file is
\* missing or cannot be loaded
CalculateFileHash(FilePath) ==
    IF ~FileExists(FilePath)
    THEN Empty
    ELSE IF ~FileState(FilePath).readable
         THEN Empty
         ELSE SHA1(<<"file", FileState(FilePath).content>>)

\* strips ".ClassName" from "/Path/ClassName.ClassName"
NormalizePath(AssetPath) ==
    LET LastDot == FindLastChar(AssetPath, ".")
    IN  IF LastDot > 0
        THEN LET ClassName == Mid(AssetPath, LastDot)
                 PathWithoutClass == Left(AssetPath, LastDot - 1)
             IN  IF EndsWith(PathWithoutClass, <<"/">> \o ClassName)
                 THEN PathWithoutClass
                 ELSE AssetPath
        ELSE AssetPath

\* FPackageName::TryConvertLongPackageNameToFilename: succeeds under a
\* mounted content root (/Game, /P)
TryConvertLongPackageNameToFilename(PackageName) ==
    Len(PackageName) >= 3 /\ PackageName[1] = "/" /\ PackageName[2] \in {"G", "P"}
        /\ PackageName[3] = "/"

\* GetAssetHash(const FString&)
GetAssetHash(AssetPath) ==
    LET NormalizedAssetPath == NormalizePath(AssetPath)
    IN  IF StartsWith(NormalizedAssetPath, <<"/", "G", "/">>)
        THEN CalculateFileHash(NormalizedAssetPath)
        ELSE IF StartsWith(NormalizedAssetPath, <<"/">>)
                  /\ TryConvertLongPackageNameToFilename(NormalizedAssetPath)
             THEN CalculateFileHash(NormalizedAssetPath)
             ELSE MD5(<<AssetPath, "_", now>>)

\* Life of a reflected type object:
\*   "live"        reachable and valid;
\*   "destroying"  still valid for IsValid(), RF_BeginDestroyed set;
\*   "freed"       destroyed, its memory not reused yet: a raw pointer kept by
\*                 the manager still reads as a valid object of the old shape,
\*                 a weak pointer is null;
\*   "gone"        destroyed and reclaimed: a raw pointer reads as invalid.
\* Reading through a raw pointer to a destroyed object is undefined; "freed"
\* and "gone" are the two outcomes the model gives it.

\* IsValid(Field) on a raw pointer
IsValidField(Field) == typeLife[Field] \in {"live", "destroying", "freed"}

\* a weak reference that never reads as null
WeakIsLive_Always(Field) == TRUE

\* TWeakObjectPtr::Get() is non-null
WeakIsLive(Field) == typeLife[Field] \in {"live", "destroying"}

\* what TObjectIterator visits
IsEnumerated(Field) == typeLife[Field] \in {"live", "destroying"}

\* GetAssetHash(const UField*) and CalculateClassStructureHash: SHA-1 of the
\* signature string built from the locally declared shape
GetFieldAssetHash(Field) ==
    IF ~IsValidField(Field) \/ typeLife[Field] = "destroying"
    THEN Empty
    ELSE SHA1(<<"signature", Field, typeShape[Field]>>)

\* IsValidFieldForExport: non-null, valid, well-formed name
IsValidFieldForExport(Field) == IsValidField(Field)

\* the reflected types of the modules this session has loaded, in the order
\* TObjectIterator walks them
TypeOrder == SelectSeq(AllTypeOrder, LAMBDA t : t \in DOMAIN typeLife)

----------------------------------------------------------------------------
(* The manager state the operations below transform.  M is the record of   *)
(* the manager's members and of the cache file they write.                 *)

Mgr == [bInitialized |-> bInitialized,
        PendingBlueprints |-> PendingBlueprints,
        PendingNativeTypes |-> PendingNativeTypes,
        ExportedFilesHashCache |-> ExportedFilesHashCache,
        FieldHashCache |-> FieldHashCache,
        FieldHashCacheTimestamp |-> FieldHashCacheTimestamp,
        bIsAsyncScanningInProgress |-> bIsAsyncScanningInProgress,
        bScanCancelled |-> bScanCancelled,
        bPathsLoaded |-> bPathsLoaded,
        ExcludedPaths |-> ExcludedPaths,
        cacheFile |-> cacheFile,
        configAtLoad |-> configAtLoad,
        hashed |-> {},      \* identifiers fingerprinted by the running operation
        emitted |-> <<>>]   \* items the running drain has handed to the emitter

Commit(M) ==
    /\ bInitialized' = M.bInitialized
    /\ PendingBlueprints' = M.PendingBlueprints
    /\ PendingNativeTypes' = M.PendingNativeTypes
    /\ ExportedFilesHashCache' = M.ExportedFilesHashCache
    /\ FieldHashCache' = M.FieldHashCache
    /\ FieldHashCacheTimestamp' = M.FieldHashCacheTimestamp
    /\ bIsAsyncScanningInProgress' = M.bIsAsyncScanningInProgress
    /\ bScanCancelled' = M.bScanCancelled
    /\ bPathsLoaded' = M.bPathsLoaded
    /\ ExcludedPaths' = M.ExcludedPaths
    /\ cacheFile' = M.cacheFile
    /\ configAtLoad' = M.configAtLoad

----------------------------------------------------------------------------
(* Exclusion rules: lazy load *)

\* LoadExcludedPathsFromFile: fills OutExcludedPaths from the "excludedPaths"
\* array, skipping empty strings; leaves it as passed in when the file is
\* absent, unreadable or unparseable
LoadExcludedPathsFromFile(OutExcludedPaths) ==
    IF configFile.kind \in {"absent", "unparseable"}
    THEN OutExcludedPaths
    ELSE SelectSeq(configFile.paths, LAMBDA Path : ~IsEmpty(Path))

\* a filter that reads the config file again on every query
LoadPathsOnce_EveryTime(M) ==
    [M EXCEPT !.ExcludedPaths = Range(LoadExcludedPathsFromFile(<<>>)),
              !.bPathsLoaded = TRUE,
              !.configAtLoad = configFile.kind]

\* the first lines of ShouldExcludeFromExport: load the static set once
LoadPathsOnce(M) ==
    IF M.bPathsLoaded
    THEN M
    ELSE [M EXCEPT !.ExcludedPaths = Range(LoadExcludedPathsFromFile(<<>>)),
                   !.bPathsLoaded = TRUE,
                   !.configAtLoad = configFile.kind]

\* ShouldExcludeFromExport as called on manager state M
IsExcluded(M, AssetPath) ==
    ShouldExcludeFromExport(LoadPathsOnce(M).ExcludedPaths, AssetPath)

----------------------------------------------------------------------------
(* Change cache *)

\* A plausible slip: an identifier the cache has never seen counts as current.
ShouldReexportByHash_MissingIsCurrent(Cache, AssetPath, AssetHash) ==
    AssetPath \in DOMAIN Cache /\ AssetHash # Cache[AssetPath]

\* ShouldReexportByHash: no entry, or an entry that differs
ShouldReexportByHash(Cache, AssetPath, AssetHash) ==
    IF AssetPath \notin DOMAIN Cache
    THEN TRUE
    ELSE AssetHash # Cache[AssetPath]

\* ShouldReexport(AssetPath, AssetFilePath): an unreadable file is exported
ShouldReexport(Cache, AssetPath, AssetFilePath) ==
    LET AssetHash == CalculateFileHash(AssetFilePath)
    IN  IF IsEmpty(AssetHash)
        THEN TRUE
        ELSE ShouldReexportByHash(Cache, AssetPath, AssetHash)

\* UpdateExportCacheByHash: unconditional upsert
UpdateExportCacheByHash(M, AssetPath, AssetHash) ==
    [M EXCEPT !.ExportedFilesHashCache = Put(@, AssetPath, AssetHash)]

\* SaveExportCache: writes {"HashCache": {...}}; a failed write is only logged
SaveExportCache(M) ==
    IF diskWritable
    THEN [M EXCEPT !.cacheFile = [kind |-> "hash", HashCache |-> M.ExportedFilesHashCache]]
    ELSE M

\* the loop of LoadExportCache over the "HashCache" object: excluded keys and
\* empty values are not loaded
RECURSIVE LoadEntries(_, _, _)
LoadEntries(M, Entries, Keys) ==
    IF Keys = {}
    THEN M
    ELSE LET Key == CHOOSE k \in Keys : TRUE
             M1 == LoadPathsOnce(M)
             M2 == IF IsExcluded(M1, Key)
                   THEN M1
                   ELSE IF ~IsEmpty(Entries[Key])
                        THEN [M1 EXCEPT !.ExportedFilesHashCache = Put(@, Key, Entries[Key])]
                        ELSE M1
         IN  LoadEntries(M2, Entries, Keys \ {Key})

\* a load that takes the pairs of whatever file is there
LoadExportCache_AnyFile(M) ==
    LoadEntries([M EXCEPT !.ExportedFilesHashCache = EmptyMap],
                M.cacheFile.HashCache, DOMAIN M.cacheFile.HashCache)

\* LoadExportCache: a missing, unreadable, unparseable or old-format file
\* leaves the cache empty
LoadExportCache(M) ==
    LET M0 == [M EXCEPT !.ExportedFilesHashCache = EmptyMap]
    IN  IF M.cacheFile.kind \in {"absent", "unreadable", "unparseable", "oldformat"}
        THEN M0
        ELSE LoadEntries(M0, M.cacheFile.HashCache, DOMAIN M.cacheFile.HashCache)

----------------------------------------------------------------------------
(* Memoized type fingerprints *)

HASH_CACHE_EXPIRE_TIME == 300

\* a purge that removes nothing
CleanupExpiredHashCache_KeepsAll(M) == M

\* A plausible slip: purge the expired fingerprints and leave their timestamps.
CleanupExpiredHashCache_HashOnly(M) ==
    [M EXCEPT !.FieldHashCache =
                    [k \in {x \in DOMAIN @ : x \in DOMAIN M.FieldHashCacheTimestamp =>
                                now - M.FieldHashCacheTimestamp[x] <= HASH_CACHE_EXPIRE_TIME}
                     |-> @[k]]]

\* CleanupExpiredHashCache: purge entries older than the expiry time
CleanupExpiredHashCache(M) ==
    LET ExpiredKeys == {k \in DOMAIN M.FieldHashCacheTimestamp :
                            now - M.FieldHashCacheTimestamp[k] > HASH_CACHE_EXPIRE_TIME}
    IN  [M EXCEPT !.FieldHashCache = Drop(@, ExpiredKeys),
                  !.FieldHashCacheTimestamp = Drop(@, ExpiredKeys)]

\* GetCachedFieldHash: [M |-> state after the call, Hash |-> returned string]
GetCachedFieldHash(M, Field) ==
    LET M1 == CleanupExpiredHashCache(M)
    IN  IF /\ Field \in DOMAIN M1.FieldHashCache
           /\ Field \in DOMAIN M1.FieldHashCacheTimestamp
           /\ now - M1.FieldHashCacheTimestamp[Field] < HASH_CACHE_EXPIRE_TIME
        THEN [M |-> M1, Hash |-> M1.FieldHashCache[Field]]
        ELSE LET Hash == GetFieldAssetHash(Field)
             IN  [M |-> [M1 EXCEPT !.FieldHashCache = Put(@, Field, Hash),
                                   !.FieldHashCacheTimestamp = Put(@, Field, now),
                                   !.hashed = @ \cup {Field}],
                  Hash |-> Hash]

----------------------------------------------------------------------------
(* Emitting one artifact.  Outcome is what the host and the code generator *)
(* do for this call: "ok" (text is generated and written), or "empty": no  *)
(* output, which in this manager stands for each path that returns before *)
(* the cache update (LoadObject or GeneratedClass null, empty generated    *)
(* text, a type name of "Error"/"Invalid").                                *)

BlueprintOutcomes == {"ok", "empty"}
TypeOutcomes == {"ok", "empty"}

\* ExportBlueprint, with the LoadObject of its callers
ExportBlueprint(M, BlueprintPath, Outcome) ==
    IF Outcome # "ok"
    THEN M
    ELSE LET BlueprintHash == GetAssetHash(BlueprintPath)
             M1 == UpdateExportCacheByHash(M, BlueprintPath, BlueprintHash)
         IN  [M1 EXCEPT !.hashed = @ \cup {BlueprintPath}]

\* A plausible slip: the type is emitted but its cache entry is not written.
ExportNativeType_NoCacheUpdate(M, Field, Outcome) ==
    IF ~IsValidFieldForExport(Field)
    THEN M
    ELSE IF Outcome # "ok"
         THEN M
         ELSE GetCachedFieldHash(M, Field).M

\* ExportNativeType
ExportNativeType(M, Field, Outcome) ==
    IF ~IsValidFieldForExport(Field)
    THEN M
    ELSE IF Outcome # "ok"
         THEN M
         ELSE LET r == GetCachedFieldHash(M, Field)
              IN  UpdateExportCacheByHash(r.M, Field, r.Hash)

----------------------------------------------------------------------------
(* Pending-set tracker *)

HasPendingChanges(M) == Len(M.PendingBlueprints) > 0 \/ Len(M.PendingNativeTypes) > 0

\* a reset that forgets the native types
ClearPendingChanges_BlueprintsOnly(M) == [M EXCEPT !.PendingBlueprints = <<>>]

ClearPendingChanges(M) ==
    [M EXCEPT !.PendingBlueprints = <<>>, !.PendingNativeTypes = <<>>]

\* ShouldExportBlueprint(AssetData, bLoad = false); every enumerated asset is
\* a blueprint (the registry filter), Settings is never null
ShouldExportBlueprint(M, AssetPath) ==
    IF IsExcluded(M, AssetPath)
    THEN FALSE
    ELSE IF ~bExportBlueprintFiles
         THEN FALSE
         ELSE TRUE

\* AddToPendingBlueprints: [M |-> state after the call, Added |-> returned bool]
AddToPendingBlueprints(M, AssetPath) ==
    LET M1 == LoadPathsOnce(M)
        PackageName == NormalizePath(AssetPath)
    IN  IF ~ShouldExportBlueprint(M1, AssetPath)
        THEN [M |-> M1, Added |-> FALSE]
        ELSE IF AssetPath \in Range(M1.PendingBlueprints)
        THEN [M |-> M1, Added |-> FALSE]
        ELSE IF ~TryConvertLongPackageNameToFilename(PackageName)
        THEN [M |-> M1, Added |-> FALSE]
        ELSE IF ~FileExists(PackageName)
        THEN [M |-> M1, Added |-> FALSE]
        ELSE LET M2 == [M1 EXCEPT !.hashed = @ \cup {AssetPath}]
             IN  IF ~ShouldReexport(M2.ExportedFilesHashCache, AssetPath, PackageName)
                 THEN [M |-> M2, Added |-> FALSE]
                 ELSE [M |-> [M2 EXCEPT !.PendingBlueprints = AddUnique(@, AssetPath)],
                       Added |-> TRUE]

\* body of the blueprint loop of OnAsyncScanCompleted
ScanBlueprint(M, AssetPath) ==
    LET r == AddToPendingBlueprints(M, AssetPath)
    IN  IF r.Added
        THEN r.M
        ELSE LET AssetHash == GetAssetHash(AssetPath)
                 M1 == [r.M EXCEPT !.hashed = @ \cup {AssetPath}]
             IN  IF ~IsEmpty(AssetHash)
                 THEN UpdateExportCacheByHash(M1, AssetPath, AssetHash)
                 ELSE M1

\* A plausible slip: every valid type is queued, whatever the cache holds.
ScanNativeType_AlwaysPending(M, Field) ==
    IF ~IsValidFieldForExport(Field)
    THEN M
    ELSE [GetCachedFieldHash(M, Field).M EXCEPT !.PendingNativeTypes = AddUnique(@, Field)]

\* body of the native-type loop of OnAsyncScanCompleted
ScanNativeType(M, Field) ==
    IF ~IsValidFieldForExport(Field)
    THEN M
    ELSE LET r == GetCachedFieldHash(M, Field)
         IN  IF ShouldReexportByHash(r.M.ExportedFilesHashCache, Field, r.Hash)
             THEN [r.M EXCEPT !.PendingNativeTypes = AddUnique(@, Field)]
             ELSE UpdateExportCacheByHash(r.M, Field, r.Hash)

RECURSIVE ScanBlueprints(_, _)
ScanBlueprints(M, Assets) ==
    IF Assets = <<>>
    THEN M
    ELSE ScanBlueprints(ScanBlueprint(M, Head(Assets)), Tail(Assets))

RECURSIVE ScanNativeTypes(_, _)
ScanNativeTypes(M, Fields) ==
    IF Fields = <<>>
    THEN M
    ELSE ScanNativeTypes(ScanNativeType(M, Head(Fields)), Tail(Fields))

\* the analysis part of OnAsyncScanCompleted: both pending sets are rebuilt
ScanAnalysis(M, BlueprintAssets, NativeTypes) ==
    ScanNativeTypes(ScanBlueprints(ClearPendingChanges(M), BlueprintAssets), NativeTypes)

----------------------------------------------------------------------------
(* Immediate drain *)

\* the drain loops of ExportIncremental over the first K items of Items;
\* an item is <<"bp", path>> or <<"type", field>>
RECURSIVE DrainItems(_, _, _, _)
DrainItems(M, Items, K, Outcome) ==
    IF K = 0 \/ Items = <<>>
    THEN M
    ELSE LET Item == Head(Items)
             Emitting == [M EXCEPT !.emitted = Append(@, Item)]
             M1 == IF Item[1] = "bp"
                   THEN ExportBlueprint(Emitting, Item[2], Outcome[Item[2]])
                   ELSE IF WeakIsLive(Item[2])
                        THEN IF IsValidFieldForExport(Item[2])
                             THEN ExportNativeType(Emitting, Item[2], Outcome[Item[2]])
                             ELSE M
                        ELSE M
         IN  DrainItems(M1, Tail(Items), K - 1, Outcome)

Tagged(Tag, Elems) == [i \in 1..Len(Elems) |-> <<Tag, Elems[i]>>]

\* a drain that walks the pending types before the pending assets
PendingItems_TypesFirst(M) ==
    Tagged("type", M.PendingNativeTypes) \o Tagged("bp", M.PendingBlueprints)

\* the pending sets in the order the drain walks them
PendingItems(M) == Tagged("bp", M.PendingBlueprints) \o Tagged("type", M.PendingNativeTypes)

\* number of items a run handles when its CancelAt-th cancel check fires
\* (CancelAt = 0: no check fires)
Handled(Items, CancelAt) == IF CancelAt > 0 THEN CancelAt - 1 ELSE Len(Items)

\* number of SlowTask.ShouldCancel() checks of a run of ExportIncremental
CancelChecks(M) ==
    Len(M.PendingBlueprints) + Len(M.PendingNativeTypes)
        + (IF Len(M.PendingNativeTypes) > 0 THEN 1 ELSE 0)

\* a drain that clears the pending sets also when it is cancelled
ExportIncremental_ClearsOnCancel(M, Outcome, CancelAt) ==
    IF ~M.bInitialized \/ ~HasPendingChanges(M)
    THEN M
    ELSE ClearPendingChanges(DrainItems(M, PendingItems(M),
                                        Handled(PendingItems(M), CancelAt), Outcome))

\* ExportIncremental. CancelAt = 0: the user never cancels; CancelAt = k: the
\* k-th ShouldCancel() check returns true.
ExportIncremental(M, Outcome, CancelAt) ==
    IF ~M.bInitialized
    THEN M
    ELSE IF ~HasPendingChanges(M)
    THEN M
    ELSE LET Items == PendingItems(M)
         IN  IF CancelAt > 0
             THEN DrainItems(M, Items, Handled(Items, CancelAt), Outcome)
             ELSE ClearPendingChanges(SaveExportCache(DrainItems(M, Items, Len(Items), Outcome)))

----------------------------------------------------------------------------

(* Full export *)

\* the two loops of ExportAll over the first K items of Items
RECURSIVE ExportAllItems(_, _, _, _)
ExportAllItems(M, Items, K, Outcome) ==
    IF K = 0 \/ Items = <<>>
    THEN M
    ELSE LET Item == Head(Items)
             M0 == LoadPathsOnce(M)
             M1 == IF Item[1] = "bp"
                   THEN IF ShouldExportBlueprint(M0, Item[2])
                        THEN ExportBlueprint(M0, Item[2], Outcome[Item[2]])
                        ELSE M0
                   ELSE ExportNativeType(M, Item[2], Outcome[Item[2]])
         IN  ExportAllItems(M1, Tail(Items), K - 1, Outcome)

\* CollectNativeTypes: the reflected types TObjectIterator visits now
CollectNativeTypes == SelectSeq(TypeOrder, IsEnumerated)

\* what ExportAll walks: every blueprint asset, then every collected type
AllItems == Tagged("bp", BlueprintOrder) \o Tagged("type", CollectNativeTypes)

\* ExportAll. CancelAt as in ExportIncremental; neither the cache file nor
\* the pending sets are touched.
ExportAll(M, Outcome, CancelAt) ==
    IF ~M.bInitialized
    THEN M
    ELSE ExportAllItems(M, AllItems, Handled(AllItems, CancelAt), Outcome)

----------------------------------------------------------------------------
(* Observations *)

\* last: the operation that ran last; for a scan, the pending sets its
\* analysis built and the identifiers it fingerprinted; for a drain of the
\* file-watcher manager, the pending sets it started from, the items it handed
\* to the emitter and the items the emitter gave no output for; for a run of
\* ExportIncremental, which of its ShouldCancel() checks fired (0: none) and
\* the items it handed to the emitter, in order
NoOp == [op |-> "none", pendingBP |-> <<>>, pendingNT |-> <<>>, hashed |-> {},
         attempted |-> {}, noOutput |-> {}, cancelAt |-> 0, calls |-> <<>>]

\* what the emitter does for each artifact during one operation; only the
\* artifacts in Relevant are handed to it
OutcomeChoices(Relevant) ==
    {ob @@ ot : ob \in {f \in [Blueprints -> BlueprintOutcomes] :
                            \A b \in Blueprints \ Relevant : f[b] = "ok"},
                ot \in {f \in [DOMAIN typeLife -> TypeOutcomes] :
                            \A t \in DOMAIN typeLife \ Relevant : f[t] = "ok"}}

\* the identifiers of the first K items
FirstIds(Items, K) == {Items[i][2] : i \in 1..(IF K < Len(Items) THEN K ELSE Len(Items))}

\* every pending item is emitted and its fingerprint is computable
CleanDrain(M, Outcome, CancelAt) ==
    /\ M.bInitialized
    /\ CancelAt = 0
    /\ \A b \in Range(M.PendingBlueprints) : Outcome[b] = "ok" /\ ~IsEmpty(GetAssetHash(b))
    /\ \A t \in Range(M.PendingNativeTypes) : Outcome[t] = "ok" /\ typeLife[t] = "live"

\* every fingerprint the analysis obtained is the one of the artifact as it is
FreshFingerprints(M, NativeTypes) ==
    \A t \in Range(NativeTypes) :
        IsValidFieldForExport(t) => M.FieldHashCache[t] = GetFieldAssetHash(t)

----------------------------------------------------------------------------
(* Hash-based manager: operations *)

host == <<settingVars, hostVars>>

\* idem after a scan that leaves nothing to export: "repeated" when the scan
\* before it had left nothing either and nothing has changed since
AfterQuietScan == IF idem \in {"drained", "repeated"} THEN "repeated" ELSE "drained"

\* Initialize, called by the editor's subsystem collection on the manager it
\* has just constructed: a new editor session, so no task is in flight
Initialize ==
    /\ ~bInitialized
    /\ scanStage = "none"
    /\ Commit([LoadExportCache(Mgr) EXCEPT !.bInitialized = TRUE])
    /\ last' = NoOp
    /\ UNCHANGED <<taskVars, host, idem, otherVars>>

Deinitialize ==
    /\ bInitialized
    /\ Commit([SaveExportCache(Mgr) EXCEPT !.bInitialized = FALSE,
                                           !.PendingBlueprints = <<>>,
                                           !.PendingNativeTypes = <<>>,
                                           !.ExportedFilesHashCache = EmptyMap,
                                           !.FieldHashCache = EmptyMap,
                                           !.FieldHashCacheTimestamp = EmptyMap])
    /\ last' = NoOp
    /\ idem' = "none"
    /\ UNCHANGED <<taskVars, host, otherVars>>

\* ScanExistingAssets / ScanExistingAssetsAsync up to the dispatch of the
\* background task.  Callers reach the manager through Get(), which hands out
\* the subsystem only between its Initialize and its Deinitialize.
ScanExistingAssetsAsync ==
    /\ bInitialized
    /\ ~bIsAsyncScanningInProgress
    /\ Commit([Mgr EXCEPT !.bIsAsyncScanningInProgress = TRUE, !.bScanCancelled = FALSE])
    /\ scanStage' = "dispatched"
    /\ scanBlueprintAssets' = <<>>
    /\ scanNativeTypes' = <<>>
    /\ scansInFlight' = scansInFlight + 1
    /\ last' = NoOp
    /\ UNCHANGED <<framedVars, host, idem, otherVars>>

\* a background lambda that also empties the pending sets, as the completion
\* handler does on the game thread before its analysis
BackgroundScan_ClearsPending ==
    /\ scanStage = "dispatched"
    /\ scanStage' = "enumerated"
    /\ scanBlueprintAssets' = BlueprintOrder
    /\ scanNativeTypes' = CollectNativeTypes
    /\ Commit([Mgr EXCEPT !.PendingBlueprints = <<>>, !.PendingNativeTypes = <<>>])
    /\ last' = NoOp
    /\ UNCHANGED <<scansInFlight, framedVars, host, idem, otherVars>>

\* the background lambda: enumerate, then post the completion to the game thread
BackgroundScan ==
    /\ scanStage = "dispatched"
    /\ scanStage' = "enumerated"
    /\ scanBlueprintAssets' = BlueprintOrder
    /\ scanNativeTypes' = CollectNativeTypes
    /\ last' = NoOp
    /\ UNCHANGED <<mgrVars, scansInFlight, framedVars, host, idem, otherVars>>

\* a cancel that does not look whether a scan is running
CancelAsyncScanAs_Unguarded(Watched) ==
    /\ bInitialized
    /\ Commit([Mgr EXCEPT !.bScanCancelled = TRUE])
    /\ last' = [NoOp EXCEPT !.op = IF bIsAsyncScanningInProgress THEN "cancel"
                                   ELSE "cancelrefused"]
    /\ UNCHANGED <<taskVars, host, idem, otherVars>>

\* CancelAsyncScan.  Watched: whether the calls that change nothing (no scan
\* in progress, or one that is cancelled already) are steps too, and last
\* records the call.
CancelAsyncScanAs(Watched) ==
    /\ bInitialized
    /\ Watched \/ (bIsAsyncScanningInProgress /\ ~bScanCancelled)
    /\ IF bIsAsyncScanningInProgress
       THEN Commit([Mgr EXCEPT !.bScanCancelled = TRUE])
       ELSE UNCHANGED mgrVars
    /\ last' = IF ~Watched THEN NoOp
               ELSE [NoOp EXCEPT !.op = IF bIsAsyncScanningInProgress THEN "cancel"
                                        ELSE "cancelrefused"]
    /\ UNCHANGED <<taskVars, host, idem, otherVars>>

CancelAsyncScan == CancelAsyncScanAs(FALSE)

CancelAsyncScanWatched == CancelAsyncScanAs(TRUE)

\* OnAsyncScanCompleted on the game thread.  In manual mode (the setting
\* bAutoStartScanOnStartup off) a non-empty result is drained at once by
\* ExportIncremental; otherwise the confirmation dialog is offered.
\* Watched: whether last also records which ShouldCancel() check fired.
OnAsyncScanCompletedAs(Watched) ==
    /\ scanStage = "enumerated"
    /\ scanStage' = "none"
    /\ scanBlueprintAssets' = <<>>
    /\ scanNativeTypes' = <<>>
    /\ scansInFlight' = scansInFlight - 1
    /\ IF bScanCancelled
       THEN /\ Commit([Mgr EXCEPT !.bIsAsyncScanningInProgress = FALSE,
                                  !.bScanCancelled = FALSE])
            /\ last' = NoOp
            /\ idem' = idem
       ELSE LET A == ScanAnalysis(Mgr, scanBlueprintAssets, scanNativeTypes)
                S == SaveExportCache([A EXCEPT !.bIsAsyncScanningInProgress = FALSE])
                seen == [NoOp EXCEPT !.op = "scan",
                                     !.pendingBP = A.PendingBlueprints,
                                     !.pendingNT = A.PendingNativeTypes,
                                     !.hashed = A.hashed]
                fresh == FreshFingerprints(A, scanNativeTypes)
            IN  IF HasPendingChanges(S) /\ ~bAutoStartScanOnStartup
                   THEN \E CancelAt \in 0..CancelChecks(S) :
                        \E Outcome \in OutcomeChoices(FirstIds(PendingItems(S),
                                            Handled(PendingItems(S), CancelAt))) :
                        \E R \in {ExportIncremental(S, Outcome, CancelAt)} :
                            /\ Commit(R)
                            /\ last' = IF Watched
                                       THEN [seen EXCEPT !.cancelAt = CancelAt,
                                                         !.calls = R.emitted]
                                       ELSE seen
                            /\ idem' = IF fresh /\ CleanDrain(S, Outcome, CancelAt)
                                       THEN "drained"
                                       ELSE IF fresh /\ (CancelAt > 0 \/ ~S.bInitialized)
                                            THEN "scanned"
                                            ELSE "none"
                   ELSE /\ Commit(S)
                        /\ last' = seen
                        /\ idem' = IF ~fresh THEN "none"
                                   ELSE IF HasPendingChanges(S) THEN "scanned"
                                   ELSE AfterQuietScan
    /\ UNCHANGED <<framedVars, host, otherVars>>

OnAsyncScanCompleted == OnAsyncScanCompletedAs(FALSE)

OnAsyncScanCompletedWatched == OnAsyncScanCompletedAs(TRUE)

\* the confirmation button of the export dialog: ExportIncremental.
\* Watched: whether last records the drain and which ShouldCancel() check fired.
OnExportConfirmedAs(Watched) ==
    /\ bInitialized
    /\ HasPendingChanges(Mgr)
    /\ \E CancelAt \in 0..CancelChecks(Mgr) :
       \E Outcome \in OutcomeChoices(FirstIds(PendingItems(Mgr),
                                               Handled(PendingItems(Mgr), CancelAt))) :
       \E R \in {ExportIncremental(Mgr, Outcome, CancelAt)} :
            /\ Commit(R)
            /\ last' = IF Watched
                       THEN [NoOp EXCEPT !.op = IF CancelAt > 0 THEN "draincancelled"
                                                ELSE "drain",
                                         !.pendingBP = PendingBlueprints,
                                         !.pendingNT = PendingNativeTypes,
                                         !.cancelAt = CancelAt,
                                         !.calls = R.emitted]
                       ELSE NoOp
            /\ idem' = IF idem = "scanned" /\ CleanDrain(Mgr, Outcome, CancelAt)
                       THEN "drained"
                       ELSE IF idem = "scanned" /\ CancelAt > 0
                            THEN "scanned"
                            ELSE "none"
    /\ UNCHANGED <<taskVars, host, otherVars>>

OnExportConfirmed == OnExportConfirmedAs(FALSE)

OnExportConfirmedWatched == OnExportConfirmedAs(TRUE)

\* the "export all" command.
\* Watched: whether last records the export and which ShouldCancel() check fired.
ExportAllCommandAs(Watched) ==
    /\ bInitialized
    /\ \E CancelAt \in 0..Len(AllItems) :
       \E Outcome \in OutcomeChoices({id \in FirstIds(AllItems, Handled(AllItems, CancelAt)) :
                                            id \in Blueprints => ShouldExportBlueprint(Mgr, id)}) :
            /\ Commit(ExportAll(Mgr, Outcome, CancelAt))
            /\ last' = IF Watched
                       THEN [NoOp EXCEPT !.op = "exportall", !.cancelAt = CancelAt]
                       ELSE NoOp
    /\ UNCHANGED <<taskVars, host, idem, otherVars>>

ExportAllCommand == ExportAllCommandAs(FALSE)

ExportAllCommandWatched == ExportAllCommandAs(TRUE)

----------------------------------------------------------------------------
(* Scan request as its callers issue it *)

\* a request that dispatches a task whether or not one is in flight
ScanExistingAssets_Unguarded ==
    /\ bInitialized
    /\ Commit([Mgr EXCEPT !.bIsAsyncScanningInProgress = TRUE, !.bScanCancelled = FALSE])
    /\ scanStage' = "dispatched"
    /\ scanBlueprintAssets' = <<>>
    /\ scanNativeTypes' = <<>>
    /\ scansInFlight' = scansInFlight + 1
    /\ last' = NoOp
    /\ UNCHANGED <<framedVars, host, idem, otherVars>>

\* ScanExistingAssets: forwards to ScanExistingAssetsAsync, which returns at
\* once while a scan is in progress
ScanExistingAssets ==
    /\ bInitialized
    /\ IF bIsAsyncScanningInProgress
       THEN /\ last' = [NoOp EXCEPT !.op = "scanrefused"]
            /\ UNCHANGED <<mgrVars, taskVars, host, idem, otherVars>>
       ELSE ScanExistingAssetsAsync

----------------------------------------------------------------------------
(* Sliced drain *)

ItemsPerFrame == 5

\* Op applied to the value of v, which is computed once
Apply(v, Op(_)) == CHOOSE r \in {Op(x) : x \in {v}} : TRUE

\* one of the two while loops of ProcessFramedStep over a snapshot array:
\* F is [M, Index, Other, Processed, Handled, Shown], Index the cursor of
\* this array and Other the cursor of the other one; Shown collects what the
\* progress notification is told after each item: <<ProcessedItems, TotalItems>>
RECURSIVE FramedLoop(_, _, _, _)
FramedLoop(F, Items, Tag, Outcome) ==
    IF F.Index < Len(Items) /\ F.Processed < ItemsPerFrame
    THEN Apply([M |-> IF Tag = "bp"
                      THEN ExportBlueprint(F.M, Items[F.Index + 1],
                                           Outcome[Items[F.Index + 1]])
                      ELSE ExportNativeType(F.M, Items[F.Index + 1],
                                            Outcome[Items[F.Index + 1]]),
                Index |-> F.Index + 1,
                Other |-> F.Other,
                Processed |-> F.Processed + 1,
                Handled |-> Append(F.Handled, <<Tag, Items[F.Index + 1]>>),
                Shown |-> Append(F.Shown,
                                 <<F.Index + 1 + F.Other,
                                   Len(ScannedBlueprintAssets) + Len(ScannedNativeTypes)>>)],
               LAMBDA G : FramedLoop(G, Items, Tag, Outcome))
    ELSE F

\* a step that walks the reflected types before the assets
ProcessFramedStep_TypesFirst(D, Outcome) ==
    IF ~D.InProgress
    THEN [D EXCEPT !.Log = Append(@, [Handled |-> <<>>, More |-> FALSE, Shown |-> <<>>,
                                      BlueprintIndex |-> D.BlueprintIndex,
                                      NativeTypeIndex |-> D.NativeTypeIndex])]
    ELSE Apply(FramedLoop([M |-> D.M, Index |-> D.NativeTypeIndex,
                           Other |-> D.BlueprintIndex, Processed |-> 0,
                           Handled |-> <<>>, Shown |-> <<>>],
                          ScannedNativeTypes, "type", Outcome),
               LAMBDA N :
         Apply(FramedLoop([M |-> N.M, Index |-> D.BlueprintIndex, Other |-> N.Index,
                           Processed |-> N.Processed, Handled |-> N.Handled,
                           Shown |-> N.Shown],
                          ScannedBlueprintAssets, "bp", Outcome),
               LAMBDA B :
         [D EXCEPT !.M = B.M, !.BlueprintIndex = B.Index, !.NativeTypeIndex = N.Index,
                   !.Log = Append(@, [Handled |-> B.Handled,
                                      More |-> ~(B.Index >= Len(ScannedBlueprintAssets)
                                                 /\ N.Index >= Len(ScannedNativeTypes)),
                                      Shown |-> B.Shown,
                                      BlueprintIndex |-> B.Index,
                                      NativeTypeIndex |-> N.Index])]))

\* a step whose progress text counts against the assets alone
ProcessFramedStep_AssetTotal(D, Outcome) ==
    IF ~D.InProgress
    THEN [D EXCEPT !.Log = Append(@, [Handled |-> <<>>, More |-> FALSE, Shown |-> <<>>,
                                      BlueprintIndex |-> D.BlueprintIndex,
                                      NativeTypeIndex |-> D.NativeTypeIndex])]
    ELSE Apply(FramedLoop([M |-> D.M, Index |-> D.BlueprintIndex,
                           Other |-> D.NativeTypeIndex, Processed |-> 0,
                           Handled |-> <<>>, Shown |-> <<>>],
                          ScannedBlueprintAssets, "bp", Outcome),
               LAMBDA B :
         Apply(FramedLoop([M |-> B.M, Index |-> D.NativeTypeIndex, Other |-> B.Index,
                           Processed |-> B.Processed, Handled |-> B.Handled,
                           Shown |-> B.Shown],
                          ScannedNativeTypes, "type", Outcome),
               LAMBDA N :
         [D EXCEPT !.M = N.M, !.BlueprintIndex = B.Index, !.NativeTypeIndex = N.Index,
                   !.Log = Append(@, [Handled |-> N.Handled,
                                      More |-> ~(B.Index >= Len(ScannedBlueprintAssets)
                                                 /\ N.Index >= Len(ScannedNativeTypes)),
                                      Shown |-> [k \in 1..Len(N.Shown) |->
                                                    <<N.Shown[k][1],
                                                      Len(ScannedBlueprintAssets)>>],
                                      BlueprintIndex |-> B.Index,
                                      NativeTypeIndex |-> N.Index])]))

\* ProcessFramedStep on drain state D = [M, InProgress, BlueprintIndex,
\* NativeTypeIndex, Log]; the returned bool is the More field of the entry it
\* appends to Log.  B is the state after the loop over the assets, N after
\* the loop over the types.
ProcessFramedStep(D, Outcome) ==
    IF ~D.InProgress
    THEN [D EXCEPT !.Log = Append(@, [Handled |-> <<>>, More |-> FALSE, Shown |-> <<>>,
                                      BlueprintIndex |-> D.BlueprintIndex,
                                      NativeTypeIndex |-> D.NativeTypeIndex])]
    ELSE Apply(FramedLoop([M |-> D.M, Index |-> D.BlueprintIndex,
                           Other |-> D.NativeTypeIndex, Processed |-> 0,
                           Handled |-> <<>>, Shown |-> <<>>],
                          ScannedBlueprintAssets, "bp", Outcome),
               LAMBDA B :
         Apply(FramedLoop([M |-> B.M, Index |-> D.NativeTypeIndex, Other |-> B.Index,
                           Processed |-> B.Processed, Handled |-> B.Handled,
                           Shown |-> B.Shown],
                          ScannedNativeTypes, "type", Outcome),
               LAMBDA N :
         [D EXCEPT !.M = N.M, !.BlueprintIndex = B.Index, !.NativeTypeIndex = N.Index,
                   !.Log = Append(@, [Handled |-> N.Handled,
                                      More |-> ~(B.Index >= Len(ScannedBlueprintAssets)
                                                 /\ N.Index >= Len(ScannedNativeTypes)),
                                      Shown |-> N.Shown,
                                      BlueprintIndex |-> B.Index,
                                      NativeTypeIndex |-> N.Index])]))

\* while (ProcessFramedStep()) { }
RECURSIVE RunFramedSteps(_, _)
RunFramedSteps(D, Outcome) ==
    Apply(ProcessFramedStep(D, Outcome),
          LAMBDA D1 : IF D1.Log[Len(D1.Log)].More THEN RunFramedSteps(D1, Outcome) ELSE D1)

\* the drain state held in the manager's members
Drain == [M |-> Mgr, InProgress |-> bIsFramedProcessingInProgress,
          BlueprintIndex |-> CurrentBlueprintIndex,
          NativeTypeIndex |-> CurrentNativeTypeIndex, Log |-> framedLog]

\* the identifiers a step reaches from the cursors, a full budget of each array
FramedReach ==
    {ScannedBlueprintAssets[i] : i \in {j \in 1..Len(ScannedBlueprintAssets) :
            j > CurrentBlueprintIndex /\ j <= CurrentBlueprintIndex + ItemsPerFrame}}
    \cup {ScannedNativeTypes[i] : i \in {j \in 1..Len(ScannedNativeTypes) :
            j > CurrentNativeTypeIndex /\ j <= CurrentNativeTypeIndex + ItemsPerFrame}}

\* what the emitter does for each item of the snapshot arrays during one
\* call; only the items in Relevant are handed to it.  It has output for all
\* of them, for none of them, or for all but one.
FramedOutcomes(Relevant) ==
    LET Items == Range(ScannedBlueprintAssets) \cup Range(ScannedNativeTypes)
    IN  {[id \in Items |-> "ok"]}
        \cup {[id \in Items |-> IF id \in Relevant THEN "empty" ELSE "ok"]}
        \cup {[id \in Items |-> IF id = miss THEN "empty" ELSE "ok"] : miss \in Relevant}

\* StartFramedProcessing.  With an editor or play world the step runs off a
\* repeating timer; without one the steps run inside the call.
StartFramedProcessing ==
    /\ bInitialized
    /\ IF bIsFramedProcessingInProgress
       THEN /\ last' = [NoOp EXCEPT !.op = "framedrefused"]
            /\ UNCHANGED <<mgrVars, taskVars, host, idem, otherVars>>
       ELSE /\ bIsFramedProcessingInProgress' = TRUE
            /\ framedAtStart' = [started |-> TRUE,
                                 pendingBP |-> PendingBlueprints,
                                 pendingNT |-> PendingNativeTypes,
                                 blueprints |-> ScannedBlueprintAssets,
                                 types |-> ScannedNativeTypes]
            /\ last' = [NoOp EXCEPT !.op = "framedstart"]
            /\ idem' = "none"
            /\ \/ /\ framedTimer' = IF playWorld THEN "play" ELSE "editor"
                  /\ CurrentBlueprintIndex' = 0
                  /\ CurrentNativeTypeIndex' = 0
                  /\ framedLog' = <<>>
                  /\ UNCHANGED mgrVars
               \/ /\ ~playWorld
                  /\ framedTimer' = "none"
                  /\ \E Outcome \in FramedOutcomes(Range(ScannedBlueprintAssets)
                                                        \cup Range(ScannedNativeTypes)) :
                     \E Start \in {[Drain EXCEPT !.InProgress = TRUE,
                                                  !.BlueprintIndex = 0,
                                                  !.NativeTypeIndex = 0,
                                                  !.Log = <<>>]} :
                     \E D \in {RunFramedSteps(Start, Outcome)} :
                            /\ Commit(D.M)
                            /\ CurrentBlueprintIndex' = D.BlueprintIndex
                            /\ CurrentNativeTypeIndex' = D.NativeTypeIndex
                            /\ framedLog' = D.Log
            /\ UNCHANGED <<scanVars, ScannedBlueprintAssets, ScannedNativeTypes, playWorld,
                           orphanTimer, host, otherVars>>

\* CompleteFramedProcessing on manager state M: ClearTimer on the timer
\* manager of the current world, which clears the timer when that manager
\* holds it and invalidates the handle in either case; the snapshot arrays
\* and cursors are reset, the cache is saved
CompleteFramedProcessing(M) ==
    /\ bIsFramedProcessingInProgress' = FALSE
    /\ framedTimer' = "none"
    /\ orphanTimer' = (orphanTimer \/ (playWorld /\ framedTimer = "editor"))
    /\ playWorld' = playWorld
    /\ ScannedBlueprintAssets' = <<>>
    /\ ScannedNativeTypes' = <<>>
    /\ CurrentBlueprintIndex' = 0
    /\ CurrentNativeTypeIndex' = 0
    /\ Commit(SaveExportCache(M))

\* ProcessFramedStepWrapper, called by the timer
ProcessFramedStepWrapper ==
    /\ framedTimer # "none" \/ orphanTimer
    /\ Len(framedLog) < MaxFramedTicks
    /\ \E Outcome \in FramedOutcomes(FramedReach) :
        \E Before \in {Drain} :
        \E D \in {ProcessFramedStep(Before, Outcome)} :
            /\ framedLog' = D.Log
            /\ IF ~D.Log[Len(D.Log)].More
               THEN /\ CompleteFramedProcessing(D.M)
                    /\ last' = [NoOp EXCEPT !.op = "framedcomplete"]
               ELSE /\ Commit(D.M)
                    /\ CurrentBlueprintIndex' = D.BlueprintIndex
                    /\ CurrentNativeTypeIndex' = D.NativeTypeIndex
                    /\ last' = [NoOp EXCEPT !.op = "framedstep"]
                    /\ UNCHANGED <<ScannedBlueprintAssets, ScannedNativeTypes,
                                   bIsFramedProcessingInProgress, framedTimer, playWorld,
                                   orphanTimer>>
    /\ idem' = "none"
    /\ UNCHANGED <<scanVars, framedAtStart, host, otherVars>>

----------------------------------------------------------------------------
(* Host: settings, files, reflected types, disk, clock *)

\* seconds the clock advances in one step of the model: the clock reaches
\* the expiry time exactly, then passes it
TickSeconds == HASH_CACHE_EXPIRE_TIME

Contents == 1..MaxContent

\* a host change: the manager is left as it is; frame names what else is
HostStepFor(frame) ==
    /\ envChanges < MaxEnvChanges
    /\ envChanges' = envChanges + 1
    /\ last' = NoOp
    /\ UNCHANGED <<mgrVars, taskVars, frame>>

HostStep == HostStepFor(otherVars)

SetExportBlueprintFiles ==
    /\ HostStep
    /\ bExportBlueprintFiles' = ~bExportBlueprintFiles
    /\ idem' = "none"
    /\ UNCHANGED <<bAutoStartScanOnStartup, configFile, diskWritable, files, typeShape,
                   typeLife, now>>

SetAutoStartScanOnStartup ==
    /\ HostStep
    /\ bAutoStartScanOnStartup' = ~bAutoStartScanOnStartup
    /\ idem' = "none"
    /\ UNCHANGED <<bExportBlueprintFiles, configFile, diskWritable, files, typeShape,
                   typeLife, now>>

\* a .uasset file is saved, deleted or locked
EditFile ==
    /\ HostStep
    /\ \E p \in PackageNames, c \in {Present(n) : n \in Contents} \cup {Missing, Unreadable} :
            /\ c # files[p]
            /\ files' = [files EXCEPT ![p] = c]
    /\ idem' = "none"
    /\ UNCHANGED <<settingVars, configFile, diskWritable, typeShape, typeLife, now>>

\* hot reload changes the shape of a live type
HotReload ==
    /\ HostStep
    /\ \E t \in Types, c \in Contents :
            /\ typeLife[t] = "live"
            /\ c # typeShape[t]
            /\ typeShape' = [typeShape EXCEPT ![t] = c]
    /\ idem' = "none"
    /\ UNCHANGED <<settingVars, configFile, diskWritable, files, typeLife, now>>

\* a type is unloaded; between two manager operations the unload may stop
\* at pending-destroy or run to the end
DestroyType ==
    /\ HostStep
    /\ \E t \in DOMAIN typeLife, l \in {"destroying", "freed", "gone"} :
            /\ \/ typeLife[t] = "live"
               \/ typeLife[t] = "destroying" /\ l \in {"freed", "gone"}
               \/ typeLife[t] = "freed" /\ l = "gone"
            /\ typeLife' = [typeLife EXCEPT ![t] = l]
    /\ idem' = "none"
    /\ UNCHANGED <<settingVars, configFile, diskWritable, files, typeShape, now>>

\* the Intermediate directory becomes read-only, or writable again
DiskFault ==
    /\ HostStep
    /\ diskWritable' = ~diskWritable
    /\ UNCHANGED <<settingVars, configFile, files, typeShape, typeLife, now, idem>>

Tick ==
    /\ HostStep
    /\ now' = now + TickSeconds
    /\ UNCHANGED <<settingVars, configFile, diskWritable, files, typeShape, typeLife, idem>>

----------------------------------------------------------------------------
(* Hash-based manager: specification *)

FileHash(c) == SHA1(<<"file", c>>)

\* an ExportCache.json left by an earlier session: /P/B.B exported at
\* content 1, and an entry with an empty hash string
SeededCacheFile ==
    [kind |-> "hash", HashCache |-> (BP2 :> FileHash(1)) @@ (T2 :> Empty)]

AbsentConfigFile == [kind |-> "absent", paths |-> <<>>]

PresentConfigFile == [kind |-> "present", paths |-> RuleArray]

\* the members of the manager other than the memoized type fingerprints
InitMembers ==
    /\ bInitialized = FALSE
    /\ PendingBlueprints = <<>>
    /\ PendingNativeTypes = <<>>
    /\ ExportedFilesHashCache = EmptyMap
    /\ bIsAsyncScanningInProgress = FALSE
    /\ bScanCancelled = FALSE
    /\ bPathsLoaded = FALSE
    /\ ExcludedPaths = {}
    /\ scanStage = "none"
    /\ scanBlueprintAssets = <<>>
    /\ scanNativeTypes = <<>>
    /\ scansInFlight = 0
    /\ configAtLoad = "notloaded"
    /\ last = NoOp
    /\ idem = "none"

InitManager ==
    /\ InitMembers
    /\ FieldHashCache = EmptyMap
    /\ FieldHashCacheTimestamp = EmptyMap

\* no sliced drain has been started
NoDrain == [started |-> FALSE, pendingBP |-> <<>>, pendingNT |-> <<>>,
            blueprints |-> <<>>, types |-> <<>>]

\* the sliced drain as the constructor leaves it
InitFramed ==
    /\ ScannedBlueprintAssets = <<>>
    /\ ScannedNativeTypes = <<>>
    /\ bIsFramedProcessingInProgress = FALSE
    /\ CurrentBlueprintIndex = 0
    /\ CurrentNativeTypeIndex = 0
    /\ framedTimer = "none"
    /\ playWorld = FALSE
    /\ orphanTimer = FALSE
    /\ framedAtStart = NoDrain
    /\ framedLog = <<>>

InitHost ==
    /\ bExportBlueprintFiles = FALSE
    /\ bAutoStartScanOnStartup = FALSE
    /\ diskWritable = TRUE
    /\ files = [p \in PackageNames |-> Present(1)]
    /\ typeShape = [t \in Types |-> 1]
    /\ typeLife = [t \in Types |-> "live"]
    /\ now = 0
    /\ envChanges = 0

\* the file-watcher manager's extra members, unused by the hash-based one
\* no check has passed the throttle yet
NoCheck == [at |-> -1, count |-> -1]

\* the constructor's LastNativeTypesCheckTime(0.0) and the initial values of
\* the statics of CheckNativeTypesChanges
InitWatch ==
    /\ LastNativeTypesCheckTime = 0
    /\ LastNativeTypesCount = -1
    /\ bFirstCheck = TRUE
    /\ checkTimers = {}
    /\ prevCheck = NoCheck
    /\ uncheckedChange = FALSE

InitFw ==
    /\ ExportedFilesCache = EmptyMap
    /\ FileComparisonMethod = "Timestamp"
    /\ fileTime = [p \in PackageNames |-> 0]
    /\ InitWatch

\* no fingerprint pair is under way
InitPair ==
    /\ fnVia = "path"
    /\ fnFirst = Empty
    /\ fnSecond = Empty
    /\ fnArtifact = <<>>

InitFn ==
    /\ fnPhase = "idle"
    /\ fnRules = {}
    /\ fnPath = Empty
    /\ fnHash = Empty
    /\ fnCache = EmptyMap
    /\ fnResult = FALSE
    /\ fnIterations = 0
    /\ fnCacheAfter = EmptyMap
    /\ InitPair

Init ==
    /\ InitManager
    /\ InitFramed
    /\ InitHost
    /\ InitFw
    /\ InitFn
    /\ configFile \in {AbsentConfigFile, PresentConfigFile}
    /\ cacheFile = SeededCacheFile

Next ==
    \/ Initialize
    \/ Deinitialize
    \/ ScanExistingAssetsAsync
    \/ BackgroundScan
    \/ OnAsyncScanCompleted
    \/ CancelAsyncScan
    \/ OnExportConfirmed
    \/ ExportAllCommand
    \/ SetExportBlueprintFiles
    \/ SetAutoStartScanOnStartup
    \/ EditFile
    \/ HotReload
    \/ DestroyType
    \/ DiskFault
    \/ Tick

Spec == Init /\ [][Next]_vars

----------------------------------------------------------------------------
(* The two const queries on their own: one call per behaviour, on inputs   *)
(* drawn from bounded sets.                                                *)

Alphabet == {"/", "A", "B", "C", "c"}

\* every string over Alphabet of at most n characters
StringsUpTo(n) == UNION {[1..k -> Alphabet] : k \in 0..n}

\* identifiers handed to the exclusion filter: the empty string and every
\* path "/..." of at most MaxIdLen characters
HarnessPaths == {Empty} \cup {<<"/">> \o rest : rest \in StringsUpTo(MaxIdLen - 1)}

RuleAB == <<"/", "A", "/", "B">>

HarnessRuleSets ==
    { {}, {RuleAB}, {<<"/", "A">>, <<"/", "A", "/", "B", "/", "C">>}, {<<"/">>, <<"/", "c">>} }

Foo == <<"/", "G", "/", "F">>
aaaa == <<"a", "a", "a", "a">>
bbbb == <<"b", "b", "b", "b">>

HarnessKeys == {Foo, BP1}
HarnessHashes == {aaaa, bbbb, Empty}

\* every map from a subset of HarnessKeys to HarnessHashes
HarnessCaches == UNION {[D -> HarnessHashes] : D \in SUBSET HarnessKeys}

InitPure ==
    /\ InitManager
    /\ InitFramed
    /\ InitHost
    /\ InitFw
    /\ configFile = AbsentConfigFile
    /\ cacheFile = SeededCacheFile
    /\ fnResult = FALSE
    /\ fnIterations = 0
    /\ fnCacheAfter = EmptyMap
    /\ InitPair
    /\ \/ /\ fnPhase = "excludeInput"
          /\ fnRules \in HarnessRuleSets
          /\ fnPath \in HarnessPaths
          /\ fnHash = Empty
          /\ fnCache = EmptyMap
       \/ /\ fnPhase = "reexportInput"
          /\ fnRules = {}
          /\ fnPath \in HarnessKeys
          /\ fnHash \in HarnessHashes
          /\ fnCache \in HarnessCaches

\* one call of ShouldExcludeFromExport with the static rule set fnRules
CallShouldExcludeFromExport ==
    /\ fnPhase = "excludeInput"
    /\ fnPhase' = "excluded"
    /\ fnResult' = ShouldExcludeFromExport(fnRules, fnPath)
    /\ fnIterations' = IF fnPath \in fnRules THEN 0 ELSE ParentMatch(fnRules, fnPath, 0).iterations
    /\ UNCHANGED <<mgrVars, taskVars, host, last, idem, fwVars, fnRules, fnPath, fnHash,
                   fnCache, fnCacheAfter, pairVars>>

\* one call of the const method ShouldReexportByHash on the cache fnCache
CallShouldReexportByHash ==
    /\ fnPhase = "reexportInput"
    /\ fnPhase' = "reexport"
    /\ fnResult' = ShouldReexportByHash(fnCache, fnPath, fnHash)
    /\ fnCacheAfter' = fnCache
    /\ UNCHANGED <<mgrVars, taskVars, host, last, idem, fwVars, fnRules, fnPath, fnHash,
                   fnCache, fnIterations, pairVars>>

NextPure ==
    \/ CallShouldExcludeFromExport
    \/ CallShouldReexportByHash

SpecPure == InitPure /\ [][NextPure]_vars

----------------------------------------------------------------------------
(* File-watcher manager (LuaExportManager.cpp).  It shares the exclusion   *)
(* filter, the file fingerprint and the pending sets with the hash-based   *)
(* manager; its change cache is keyed by export time unless the setting    *)
(* FileComparisonMethod selects hashes.                                    *)

\* the manager state its operations transform; attempted and noOutput record
\* what a drain handed to the emitter and what the emitter gave nothing for
FW_Mgr == Mgr @@ [ExportedFilesCache |-> ExportedFilesCache,
                  attempted |-> {},
                  noOutput |-> {}]

FW_Commit(M) ==
    /\ Commit(M)
    /\ ExportedFilesCache' = M.ExportedFilesCache

\* "/Native/<FieldName>": the cache key of a reflected type
NativeTypePath(Field) == <<"/", "N", "/">> \o Mid(Field, FindLastChar(Field, "."))

\* modification time of the plugin's module file
CompileTime == 0

\* FDateTime::MinValue(), what GetTimeStamp returns for a file it cannot stat;
\* it is below every time a file or the cache carries
MinValue == -1

\* IFileManager::GetTimeStamp
GetTimeStamp(FilePath) == fileTime[FilePath]

\* ShouldReexport(AssetPath, AssetModifyTime)
FW_ShouldReexportByTime(M, AssetPath, AssetModifyTime) ==
    IF FileComparisonMethod = "Hash"
    THEN LET AssetHash == GetAssetHash(AssetPath)
         IN  IF IsEmpty(AssetHash)
             THEN TRUE
             ELSE ShouldReexportByHash(M.ExportedFilesHashCache, AssetPath, AssetHash)
    ELSE IF AssetPath \notin DOMAIN M.ExportedFilesCache
         THEN TRUE
         ELSE AssetModifyTime > M.ExportedFilesCache[AssetPath]

\* a comparison that also re-exports on equal times
FW_ShouldReexport_OnEqual(M, AssetPath, AssetFilePath) ==
    IF FileComparisonMethod = "Hash"
    THEN ShouldReexport(M.ExportedFilesHashCache, AssetPath, AssetFilePath)
    ELSE IF GetTimeStamp(AssetFilePath) = MinValue
         THEN TRUE
         ELSE IF AssetPath \notin DOMAIN M.ExportedFilesCache
              THEN TRUE
              ELSE GetTimeStamp(AssetFilePath) >= M.ExportedFilesCache[AssetPath]

\* ShouldReexport(AssetPath, AssetFilePath); the caller has checked FileExists
FW_ShouldReexport(M, AssetPath, AssetFilePath) ==
    IF FileComparisonMethod = "Hash"
    THEN ShouldReexport(M.ExportedFilesHashCache, AssetPath, AssetFilePath)
    ELSE IF GetTimeStamp(AssetFilePath) = MinValue
         THEN TRUE
         ELSE IF AssetPath \notin DOMAIN M.ExportedFilesCache
              THEN TRUE
              ELSE GetTimeStamp(AssetFilePath) > M.ExportedFilesCache[AssetPath]

\* UpdateExportCache(AssetPath, ExportTime)
FW_UpdateExportCache(M, AssetPath, ExportTime) ==
    LET M1 == LoadPathsOnce(M)
    IN  IF IsExcluded(M1, AssetPath)
        THEN M1
        ELSE IF FileComparisonMethod = "Hash"
             THEN LET AssetHash == GetAssetHash(AssetPath)
                  IN  IF ~IsEmpty(AssetHash)
                      THEN UpdateExportCacheByHash(M1, AssetPath, AssetHash)
                      ELSE M1
             ELSE [M1 EXCEPT !.ExportedFilesCache = Put(@, AssetPath, ExportTime)]

\* AddToPendingBlueprints
FW_AddToPendingBlueprints(M, AssetPath) ==
    LET M1 == LoadPathsOnce(M)
        PackageName == NormalizePath(AssetPath)
    IN  IF ~ShouldExportBlueprint(M1, AssetPath)
        THEN M1
        ELSE IF AssetPath \in Range(M1.PendingBlueprints)
        THEN M1
        ELSE IF ~TryConvertLongPackageNameToFilename(PackageName)
        THEN M1
        ELSE IF ~FileExists(PackageName)
        THEN M1
        ELSE IF ~FW_ShouldReexport(M1, AssetPath, PackageName)
        THEN M1
        ELSE [M1 EXCEPT !.PendingBlueprints = AddUnique(@, AssetPath)]

\* what the emitter does in this manager: "noload" (LoadObject gives null),
\* "empty" (no text is generated, or the type name is unusable), "ok"
FW_BlueprintOutcomes == {"ok", "empty", "noload"}
FW_TypeOutcomes == {"ok", "empty"}

FW_OutcomeChoices(Relevant) ==
    {ob @@ ot : ob \in {f \in [Blueprints -> FW_BlueprintOutcomes] :
                            \A b \in Blueprints \ Relevant : f[b] = "ok"},
                ot \in {f \in [Types -> FW_TypeOutcomes] :
                            \A t \in Types \ Relevant : f[t] = "ok"}}

\* ExportNativeType: the cache entry is written only when a file was saved
FW_ExportNativeType(M, Field, Outcome) ==
    IF ~IsValidFieldForExport(Field)
    THEN M
    ELSE IF Outcome = "ok"
         THEN FW_UpdateExportCache(M, NativeTypePath(Field), now)
         ELSE M

\* one blueprint of the drain loop: LoadObject, ExportBlueprint (which writes
\* no cache entry), then UpdateExportCache whatever ExportBlueprint did
FW_DrainBlueprint(M, BlueprintPath, Outcome) ==
    LET M1 == [M EXCEPT !.attempted = @ \cup {BlueprintPath},
                        !.noOutput = IF Outcome = "ok" THEN @ ELSE @ \cup {BlueprintPath}]
    IN  IF Outcome = "noload"
        THEN M1
        ELSE FW_UpdateExportCache(M1, BlueprintPath, now)

\* one reflected type of the drain loop
FW_DrainNativeType(M, Field, Outcome) ==
    LET M1 == [M EXCEPT !.attempted = @ \cup {Field}]
    IN  IF WeakIsLive(Field)
        THEN IF IsValidFieldForExport(Field)
             THEN LET M2 == [M1 EXCEPT !.noOutput = IF Outcome = "ok" THEN @ ELSE @ \cup {Field}]
                  IN  FW_UpdateExportCache(FW_ExportNativeType(M2, Field, Outcome), Field, now)
             ELSE M1
        ELSE M1

RECURSIVE FW_DrainItems(_, _, _, _)
FW_DrainItems(M, Items, K, Outcome) ==
    IF K = 0 \/ Items = <<>>
    THEN M
    ELSE LET Item == Head(Items)
             M1 == IF Item[1] = "bp"
                   THEN FW_DrainBlueprint(M, Item[2], Outcome[Item[2]])
                   ELSE FW_DrainNativeType(M, Item[2], Outcome[Item[2]])
         IN  FW_DrainItems(M1, Tail(Items), K - 1, Outcome)

\* cache keys of the three core files
UE == <<"U", "E">>
UE4 == <<"U", "E", "4">>
UnLua == <<"U", "n", "L", "u", "a">>

\* SaveExportCache: only the time cache is written
FW_SaveExportCache(M) ==
    IF diskWritable
    THEN [M EXCEPT !.cacheFile = [kind |-> "time", TimeCache |-> M.ExportedFilesCache]]
    ELSE M

RECURSIVE FW_LoadEntries(_, _, _)
FW_LoadEntries(M, Entries, Keys) ==
    IF Keys = {}
    THEN M
    ELSE LET Key == CHOOSE k \in Keys : TRUE
             M1 == LoadPathsOnce(M)
             M2 == IF IsExcluded(M1, Key)
                   THEN M1
                   ELSE [M1 EXCEPT !.ExportedFilesCache = Put(@, Key, Entries[Key])]
         IN  FW_LoadEntries(M2, Entries, Keys \ {Key})

\* LoadExportCache
FW_LoadExportCache(M) ==
    LET M0 == [M EXCEPT !.ExportedFilesCache = EmptyMap]
    IN  IF M.cacheFile.kind = "absent"
        THEN M0
        ELSE FW_LoadEntries(M0, M.cacheFile.TimeCache, DOMAIN M.cacheFile.TimeCache)

\* ExportIncremental
FW_ExportIncremental(M, Outcome, CancelAt) ==
    IF ~M.bInitialized
    THEN M
    ELSE IF ~HasPendingChanges(M)
    THEN M
    ELSE LET Items == PendingItems(M)
         IN  IF CancelAt > 0
             THEN FW_DrainItems(M, Items, Handled(Items, CancelAt), Outcome)
             ELSE LET M1 == FW_DrainItems(M, Items, Len(Items), Outcome)
                      M2 == IF Len(M.PendingNativeTypes) > 0
                            THEN FW_UpdateExportCache(
                                     FW_UpdateExportCache(
                                         FW_UpdateExportCache(M1, UE, now), UE4, now), UnLua, now)
                            ELSE M1
                  IN  ClearPendingChanges(FW_SaveExportCache(M2))

\* the native-type loop of ScanExistingAssets
RECURSIVE FW_ScanNativeTypes(_, _)
FW_ScanNativeTypes(M, Fields) ==
    IF Fields = <<>>
    THEN M
    ELSE LET Field == Head(Fields)
             M0 == LoadPathsOnce(M)
             M1 == IF ~IsValidFieldForExport(Field)
                   THEN M
                   ELSE IF IsExcluded(M0, NativeTypePath(Field))
                        THEN M0
                        ELSE IF FW_ShouldReexportByTime(M0, NativeTypePath(Field), CompileTime)
                             THEN [M0 EXCEPT !.PendingNativeTypes = AddUnique(@, Field)]
                             ELSE M0
         IN  FW_ScanNativeTypes(M1, Tail(Fields))

RECURSIVE FW_ScanBlueprints(_, _)
FW_ScanBlueprints(M, Assets) ==
    IF Assets = <<>>
    THEN M
    ELSE FW_ScanBlueprints(FW_AddToPendingBlueprints(M, Head(Assets)), Tail(Assets))

FW_Initialize ==
    /\ ~bInitialized
    /\ FW_Commit([FW_LoadExportCache(FW_Mgr) EXCEPT !.bInitialized = TRUE])
    /\ LastNativeTypesCheckTime' = now
    /\ last' = NoOp
    /\ UNCHANGED <<taskVars, host, idem, FileComparisonMethod, fileTime, fnVars,
                   LastNativeTypesCount, bFirstCheck, checkTimers, prevCheck,
                   uncheckedChange>>

FW_Deinitialize ==
    /\ bInitialized
    /\ FW_Commit([FW_SaveExportCache(FW_Mgr) EXCEPT !.bInitialized = FALSE,
                                                   !.PendingBlueprints = <<>>,
                                                   !.PendingNativeTypes = <<>>,
                                                   !.ExportedFilesCache = EmptyMap])
    /\ last' = NoOp
    /\ UNCHANGED <<taskVars, host, idem, FileComparisonMethod, fileTime, watchVars, fnVars>>

\* ScanExistingAssets: synchronous, adds to the pending sets it finds
FW_ScanExistingAssets ==
    /\ bInitialized
    /\ FW_Commit(FW_ScanNativeTypes(IF bExportBlueprintFiles
                                    THEN FW_ScanBlueprints(FW_Mgr, BlueprintOrder)
                                    ELSE FW_Mgr,
                                    CollectNativeTypes))
    /\ last' = [NoOp EXCEPT !.op = "scan",
                             !.pendingBP = PendingBlueprints',
                             !.pendingNT = PendingNativeTypes']
    /\ UNCHANGED <<taskVars, host, idem, FileComparisonMethod, fileTime, watchVars, fnVars>>

\* the confirmation button of the export dialog: ExportIncremental
FW_OnExportConfirmed ==
    /\ bInitialized
    /\ HasPendingChanges(FW_Mgr)
    /\ \E CancelAt \in 0..CancelChecks(FW_Mgr) :
       \E Outcome \in FW_OutcomeChoices(FirstIds(PendingItems(FW_Mgr),
                                                 Handled(PendingItems(FW_Mgr), CancelAt))) :
            LET R == FW_ExportIncremental(FW_Mgr, Outcome, CancelAt)
            IN  /\ FW_Commit(R)
                /\ last' = [NoOp EXCEPT !.op = IF CancelAt > 0 THEN "draincancelled" ELSE "drain",
                                        !.pendingBP = PendingBlueprints,
                                        !.pendingNT = PendingNativeTypes,
                                        !.attempted = R.attempted,
                                        !.noOutput = R.noOutput]
    /\ UNCHANGED <<taskVars, host, idem, FileComparisonMethod, fileTime, watchVars, fnVars>>


\* a .uasset file is saved, deleted or locked; a save stamps it with the time
FW_EditFile ==
    /\ HostStepFor(fnVars)
    /\ \E p \in PackageNames, c \in {Present(n) : n \in Contents} \cup {Missing, Unreadable} :
            /\ c # files[p]
            /\ files' = [files EXCEPT ![p] = c]
            /\ fileTime' = [fileTime EXCEPT ![p] = now]
    /\ UNCHANGED <<settingVars, configFile, diskWritable, typeShape, typeLife, now, idem,
                   ExportedFilesCache, FileComparisonMethod, watchVars>>

FW_SetFileComparisonMethod ==
    /\ HostStepFor(fnVars)
    /\ FileComparisonMethod' = IF FileComparisonMethod = "Hash" THEN "Timestamp" ELSE "Hash"
    /\ UNCHANGED <<settingVars, configFile, diskWritable, files, typeShape, typeLife, now, idem,
                   ExportedFilesCache, fileTime, watchVars>>

\* an ExportCache.json of the file-watcher manager has not been written yet
FW_AbsentCacheFile == [kind |-> "absent", TimeCache |-> EmptyMap]

InitFW ==
    /\ InitManager
    /\ InitFramed
    /\ InitHost
    /\ InitFw
    /\ InitFn
    /\ configFile \in {AbsentConfigFile, PresentConfigFile}
    /\ cacheFile = FW_AbsentCacheFile

NextFW ==
    \/ FW_Initialize
    \/ FW_Deinitialize
    \/ FW_ScanExistingAssets
    \/ FW_OnExportConfirmed
    \/ FW_EditFile
    \/ FW_SetFileComparisonMethod
    \/ SetExportBlueprintFiles
    \/ DestroyType
    \/ Tick

SpecFW == InitFW /\ [][NextFW]_vars

----------------------------------------------------------------------------
(* Properties *)

\* the entry a TMap holds for key k: <<value>>, or <<>> when it has none
EntryOf(Cache, k) == IF k \in DOMAIN Cache THEN <<Cache[k]>> ELSE <<>>

\* the identifiers the analysis of the completing scan queued
ScanPending(obs) == Range(obs.pendingBP) \cup Range(obs.pendingNT)

\* C1: in the hash-based manager a failed fingerprint computation never
\* updates the cache, so no cache entry ever holds an empty fingerprint.
C1_NoEmptyFingerprintCached ==
    \A id \in DOMAIN ExportedFilesHashCache : ~IsEmpty(ExportedFilesHashCache[id])

\* C2: a cache entry is created only by a successful export: a step that
\* completes a scan creates or changes the entry of no identifier other than
\* the ones its analysis queued (which the drain that follows may export); in
\* particular not the entry of a blueprint the scan rejected.
C2_ScanCreatesNoEntry ==
    [][last'.op = "scan" =>
          \A id \in Ids :
              EntryOf(ExportedFilesHashCache', id) # EntryOf(ExportedFilesHashCache, id)
                  => id \in ScanPending(last')]_vars

\* the key under which the scan of the file-watcher manager looks an item up
FW_ScanKey(id) == IF id \in Types THEN NativeTypePath(id) ELSE id

\* C3: in every manager variant, when the emitter produces no output for one
\* item of a drain, the remaining items of the batch are still handed to the
\* emitter and the cache entry of the failed item is neither created nor
\* changed (so the next scan queues it again).  Stated for a complete drain
\* of the file-watcher manager.
C3_NoOutputLeavesEntry ==
    [][last'.op = "drain" =>
          /\ last'.attempted = ScanPending(last')
          /\ \A id \in last'.noOutput :
                /\ EntryOf(ExportedFilesCache', FW_ScanKey(id))
                       = EntryOf(ExportedFilesCache, FW_ScanKey(id))
                /\ EntryOf(ExportedFilesHashCache', FW_ScanKey(id))
                       = EntryOf(ExportedFilesHashCache, FW_ScanKey(id))]_vars

\* C4: in every reachable state of the hash-based manager no cache key is an
\* excluded identifier.
C4_NoExcludedCacheKey ==
    \A id \in DOMAIN ExportedFilesHashCache : ~IsExcluded(Mgr, id)

\* C5: after any scan neither pending collection contains an excluded
\* identifier, and no excluded candidate had a fingerprint computed.
C5_NoExcludedPending ==
    last.op = "scan" =>
        /\ \A id \in ScanPending(last) : ~IsExcluded(Mgr, id)
        /\ \A id \in last.hashed : ~IsExcluded(Mgr, id)

\* the prefixes of id obtained by cutting it at a '/' other than the leading one
CutPrefixes(id) == {SubSeq(id, 1, k - 1) : k \in {j \in 2..Len(id) : id[j] = "/"}}

\* C6: IsExcluded(id) is true exactly when the rule set contains id itself or
\* a prefix of id cut at one of its '/' characters other than the leading
\* one; with the rule /A/B, /A/B and /A/B/C are excluded while /A/Bc and /A
\* are not; the prefix-stripping loop ends within Len(id) iterations.
C6_ExcludedIffRuleOnPath ==
    fnPhase = "excluded" =>
        /\ fnResult = (fnPath \in fnRules \/ CutPrefixes(fnPath) \cap fnRules # {})
        /\ fnIterations <= Len(fnPath)
        /\ fnRules = {RuleAB} =>
              /\ fnPath \in {RuleAB, RuleAB \o <<"/", "C">>} => fnResult
              /\ fnPath \in {RuleAB \o <<"c">>, <<"/", "A">>} => ~fnResult

\* C6 witness: with the rule /A/B the call has returned true for /A/B/C
\* after stripping one segment.
C6_Witness ==
    /\ fnPhase = "excluded"
    /\ fnRules = {RuleAB}
    /\ fnPath = RuleAB \o <<"/", "C">>
    /\ fnResult
    /\ fnIterations = 1

\* C7: when the exclusion config file is absent the filter falls back to a
\* built-in default list: the rule set loaded from an absent file is not empty.
C7_DefaultRulesWhenAbsent ==
    (bPathsLoaded /\ configAtLoad = "absent") => ExcludedPaths # {}

\* C8: for a non-empty fresh fingerprint f, ShouldReexportByHash(I, f) is
\* true exactly when the cache has no entry for I or an entry different from
\* f, and the call leaves the cache as it was; on the cache {/G/F: aaaa},
\* fresh bbbb gives true and fresh aaaa gives false.
C8_ReexportIffNoEntryOrDiffers ==
    (fnPhase = "reexport" /\ ~IsEmpty(fnHash)) =>
        /\ fnResult = (fnPath \notin DOMAIN fnCache \/ fnCache[fnPath] # fnHash)
        /\ fnCacheAfter = fnCache
        /\ (fnCache = (Foo :> aaaa) /\ fnPath = Foo) => (fnResult = (fnHash = bbbb))

\* C8 witness: on the cache {/G/F: aaaa} the call with fresh bbbb has
\* returned true.
C8_Witness ==
    /\ fnPhase = "reexport"
    /\ fnCache = (Foo :> aaaa)
    /\ fnPath = Foo
    /\ fnHash = bbbb
    /\ fnResult

\* the fingerprint step 2 of the analysis obtains for id: the file hash of a
\* blueprint, the memoized structure hash of a reflected type
ScanFingerprint(id) ==
    IF id \in Blueprints
    THEN GetAssetHash(id)
    ELSE IF IsValidFieldForExport(id) THEN GetCachedFieldHash(Mgr, id).Hash ELSE Empty

\* the artifacts the completing scan enumerated that are not excluded and
\* whose fingerprint is computable
ScanCandidates ==
    {id \in Range(scanBlueprintAssets) \cup Range(scanNativeTypes) :
        ~IsExcluded(Mgr, id) /\ ~IsEmpty(ScanFingerprint(id))}

\* the decision the claim describes for candidate id, over the step that
\* completes the scan
ScanDecides(id) ==
    LET f == ScanFingerprint(id)
        stale == EntryOf(ExportedFilesHashCache, id) # <<f>>
    IN  /\ (id \in ScanPending(last')) = stale
        /\ id \notin ScanPending(last') =>
              /\ EntryOf(ExportedFilesHashCache', id) = <<f>>
              /\ id \notin Range(PendingBlueprints') \cup Range(PendingNativeTypes')

\* C9 as stated: every enumerated, non-excluded artifact whose fingerprint f
\* is computable is queued by the scan analysis if and only if the cache
\* before the scan has no entry for it or an entry different from f; when it
\* is not queued, the cache maps it to f after the scan and the pending
\* collections do not contain it.
C9_ScanDecision_AsStated ==
    [][last'.op = "scan" => \A id \in ScanCandidates : ScanDecides(id)]_vars

\* C9 amended: the same, for reflected types and, while blueprint export is
\* enabled, for blueprints.
C9_ScanDecision ==
    [][last'.op = "scan" =>
          \A id \in ScanCandidates :
              (id \in Blueprints => bExportBlueprintFiles) => ScanDecides(id)]_vars

\* C9 witness: a scan has just queued the changed blueprint /G/A.A and left
\* the unchanged type /S/E.T, whose fingerprint the cache holds, out.
C9_Witness ==
    /\ last.op = "scan"
    /\ bExportBlueprintFiles
    /\ ~IsExcluded(Mgr, BP1) /\ ~IsExcluded(Mgr, T1)
    /\ BP1 \in Range(last.pendingBP)
    /\ T1 \notin Range(last.pendingNT)
    /\ typeLife[T1] = "live"
    /\ EntryOf(ExportedFilesHashCache, T1) = <<GetFieldAssetHash(T1)>>

----------------------------------------------------------------------------
(* The scan on its own: the editor starts with any settings, any state of  *)
(* the .uasset files and either exclusion config; then the manager is      *)
(* initialized and scans.                                                  *)

FileStates == {Present(n) : n \in Contents} \cup {Missing, Unreadable}

InitScan ==
    /\ InitManager
    /\ InitFramed
    /\ InitFw
    /\ InitFn
    /\ bExportBlueprintFiles \in BOOLEAN
    /\ bAutoStartScanOnStartup \in BOOLEAN
    /\ diskWritable = TRUE
    /\ files \in [PackageNames -> FileStates]
    /\ typeShape = [t \in Types |-> 1]
    /\ typeLife = [t \in Types |-> "live"]
    /\ now = 0
    /\ envChanges = 0
    /\ configFile \in {AbsentConfigFile, PresentConfigFile}
    /\ cacheFile = SeededCacheFile

NextScan ==
    \/ Initialize
    \/ ScanExistingAssetsAsync
    \/ BackgroundScan
    \/ CancelAsyncScan
    \/ OnAsyncScanCompleted
    \/ OnExportConfirmed

SpecScan == InitScan /\ [][NextScan]_vars

\* the backing file of blueprint bp is missing or cannot be read
Unresolvable(bp) == ~FileState(NormalizePath(bp)).exists \/ ~FileState(NormalizePath(bp)).readable

\* C11: when the backing file of an enumerated, non-excluded blueprint does
\* not exist or cannot be read, its fingerprint is Empty and the scan adds
\* its identifier to the pending asset collection.  Stated for the case most
\* favourable to the code, blueprint export being enabled.
C11_UnresolvableFileIsPending ==
    (last.op = "scan" /\ bExportBlueprintFiles) =>
        \A bp \in Blueprints :
            (~IsExcluded(Mgr, bp) /\ Unresolvable(bp)) =>
                /\ IsEmpty(GetAssetHash(bp))
                /\ bp \in Range(last.pendingBP)

----------------------------------------------------------------------------
(* Fingerprint computed twice.  One identifier is fingerprinted, the host  *)
(* may act (the clock runs, a type is reloaded or unloaded), and the same  *)
(* identifier is fingerprinted again through the same function.            *)

\* paths handed to GetAssetHash(const FString&): blueprint object paths and
\* the keys the cache uses for a native type and for the UE table
HashPaths == Blueprints \cup {NativeTypePath(T1), UE}

\* one call of the fingerprint function named by Via
\* [M |-> state after the call, Hash |-> returned string]
FingerprintCall(M, Via, Id) ==
    IF Via = "path"
    THEN [M |-> M, Hash |-> GetAssetHash(Id)]
    ELSE IF Via = "field"
         THEN [M |-> M, Hash |-> GetFieldAssetHash(Id)]
         ELSE GetCachedFieldHash(M, Id)

\* files and reflected types, the artifacts a fingerprint is taken of
Artifacts == <<files, typeShape, typeLife>>

ComputeFingerprint ==
    /\ fnPhase = "hashInput"
    /\ LET r == FingerprintCall(Mgr, fnVia, fnPath)
       IN  /\ Commit(r.M)
           /\ fnFirst' = r.Hash
    /\ fnArtifact' = Artifacts
    /\ fnPhase' = "hashedOnce"
    /\ UNCHANGED <<taskVars, settingVars, hostVars, last, idem, fwVars, fnRules, fnPath,
                   fnHash, fnCache, fnResult, fnIterations, fnCacheAfter, fnVia, fnSecond>>

ComputeFingerprintAgain ==
    /\ fnPhase = "hashedOnce"
    /\ LET r == FingerprintCall(Mgr, fnVia, fnPath)
       IN  /\ Commit(r.M)
           /\ fnSecond' = r.Hash
    /\ fnPhase' = "hashedTwice"
    /\ UNCHANGED <<taskVars, settingVars, hostVars, last, idem, fwVars, fnRules, fnPath,
                   fnHash, fnCache, fnResult, fnIterations, fnCacheAfter, fnVia, fnFirst,
                   fnArtifact>>

InitHash ==
    /\ InitManager
    /\ InitFramed
    /\ InitFw
    /\ bExportBlueprintFiles = FALSE
    /\ bAutoStartScanOnStartup = FALSE
    /\ diskWritable = TRUE
    /\ files \in [PackageNames -> FileStates]
    /\ typeShape = [t \in Types |-> 1]
    /\ typeLife \in [Types -> {"live", "destroying"}]
    /\ now = 0
    /\ envChanges = 0
    /\ configFile = AbsentConfigFile
    /\ cacheFile = SeededCacheFile
    /\ fnPhase = "hashInput"
    /\ fnRules = {}
    /\ fnHash = Empty
    /\ fnCache = EmptyMap
    /\ fnResult = FALSE
    /\ fnIterations = 0
    /\ fnCacheAfter = EmptyMap
    /\ fnFirst = Empty
    /\ fnSecond = Empty
    /\ fnArtifact = <<>>
    /\ \/ fnVia = "path" /\ fnPath \in HashPaths
       \/ fnVia \in {"field", "memo"} /\ fnPath \in Types

NextHash ==
    \/ ComputeFingerprint
    \/ ComputeFingerprintAgain
    \/ Tick
    \/ HotReload
    \/ DestroyType

SpecHash == InitHash /\ [][NextHash]_vars

\* C12: two fingerprint computations of one identifier, the artifact being
\* unchanged in between, return the same string; for paths (also paths that
\* resolve to no file) and for reflected types.
C12_FingerprintStable ==
    (fnPhase = "hashedTwice" /\ fnArtifact = Artifacts) => fnSecond = fnFirst

\* the call made by the step, if it is a fingerprint call, returned this
Returned == IF fnPhase = "hashedOnce" THEN fnFirst ELSE fnSecond

\* C13: a fingerprint call on a reflected type that is pending destroy at
\* the time of the call returns Empty, computed directly or looked up through
\* the memoized GetCachedFieldHash; a memoized fingerprint is not returned.
C13_PendingDestroyIsEmpty ==
    [][(fnPhase' # fnPhase /\ fnVia \in {"field", "memo"} /\ typeLife[fnPath] = "destroying")
            => IsEmpty(Returned')]_vars

\* the in-memory cache written by SaveExportCache and read back by
\* LoadExportCache
RoundTrip(M) == LoadExportCache(SaveExportCache(M)).ExportedFilesHashCache

\* C14: with the file write succeeding, SaveExportCache followed by
\* LoadExportCache yields a map with the same value for every key that is
\* not excluded at load time, and with no other key.
C14_CacheRoundTrip ==
    diskWritable =>
        LET Kept == {k \in DOMAIN ExportedFilesHashCache : ~IsExcluded(LoadPathsOnce(Mgr), k)}
        IN  /\ DOMAIN RoundTrip(Mgr) = Kept
            /\ \A k \in Kept : RoundTrip(Mgr)[k] = ExportedFilesHashCache[k]

\* the step leaves both pending collections as they are
PendingUnchanged ==
    /\ PendingBlueprints' = PendingBlueprints
    /\ PendingNativeTypes' = PendingNativeTypes

\* C15: a cancelled immediate drain (cancelled before the first item or
\* between items) and a scan cancelled before its results are analysed
\* leave both pending collections as they were when the operation started.
\* A drain that OnAsyncScanCompleted starts itself starts from the pending
\* sets the analysis has just built.
C15_CancelKeepsPending ==
    [][/\ last'.op = "draincancelled" => PendingUnchanged
       /\ (last'.op = "scan" /\ last'.cancelAt > 0) =>
                /\ PendingBlueprints' = last'.pendingBP
                /\ PendingNativeTypes' = last'.pendingNT
       /\ (scanStage = "enumerated" /\ scanStage' = "none" /\ bScanCancelled) =>
                PendingUnchanged]_vars

\* a drain of two or more pending items was cancelled between items
C15_Witness ==
    /\ last.op = "draincancelled"
    /\ last.cancelAt > 1
    /\ Len(PendingBlueprints) + Len(PendingNativeTypes) > 1

----------------------------------------------------------------------------
(* Scans and drains of one editor session: every request the user and the  *)
(* module can issue, the background task and the timer.  Blueprint export  *)
(* is enabled; /G/A.A and the reflected type are not in the cache file.    *)

InitWork ==
    /\ InitManager
    /\ InitFramed
    /\ InitFw
    /\ InitFn
    /\ bExportBlueprintFiles = TRUE
    /\ bAutoStartScanOnStartup \in BOOLEAN
    /\ diskWritable = TRUE
    /\ files = [p \in PackageNames |-> Present(1)]
    /\ typeShape = [t \in Types |-> 1]
    /\ typeLife = [t \in Types |-> "live"]
    /\ now = 0
    /\ envChanges = 0
    /\ configFile = AbsentConfigFile
    /\ cacheFile = SeededCacheFile

\* scans and immediate drains
NextTask ==
    \/ Initialize
    \/ Deinitialize
    \/ ScanExistingAssets
    \/ BackgroundScan
    \/ CancelAsyncScan
    \/ OnAsyncScanCompletedWatched
    \/ OnExportConfirmedWatched

\* the step of OnAsyncScanCompleted, told by what it does to the task: the
\* enumerated result is consumed
ScanCompletes == scanStage = "enumerated" /\ scanStage' = "none"

\* the task graph runs every task it was given: the background lambda, then
\* the completion it posts to the game thread
SpecTaskFair ==
    InitWork /\ [][NextTask]_vars /\ WF_vars(BackgroundScan) /\ WF_scanStage(ScanCompletes)

\* scans, immediate drains and sliced drains
NextWork ==
    \/ Initialize
    \/ ScanExistingAssets
    \/ BackgroundScan
    \/ CancelAsyncScan
    \/ OnAsyncScanCompletedWatched
    \/ OnExportConfirmedWatched
    \/ StartFramedProcessing
    \/ ProcessFramedStepWrapper

SpecWork == InitWork /\ [][NextWork]_vars

\* C16: a scan request made while a scan is in progress starts no background
\* task and changes no manager state; at most one scan is in flight in every
\* reachable state, and each accepted request is followed by exactly one
\* completion callback.
C16_OneScanAtATime ==
    /\ [][last'.op = "scanrefused" => UNCHANGED <<mgrVars, taskVars>>]_vars
    /\ [](scansInFlight \in {0, 1})
    /\ []((scansInFlight = 1) <=> bIsAsyncScanningInProgress)
    /\ [][scansInFlight' < scansInFlight =>
            (scanStage = "enumerated" /\ scanStage' = "none"
                /\ scansInFlight' = scansInFlight - 1)]_vars
    /\ (scansInFlight = 1) ~> (scansInFlight = 0)

\* a request was refused while the task of an accepted one was still running
C16_Witness == last.op = "scanrefused" /\ scanStage = "dispatched" /\ scansInFlight = 1

\* C17: no drain, immediate or sliced, begins while a scan or another drain
\* is active; a drain request made then invokes no emitter and changes no
\* state.
C17_NoDrainWhileBusy ==
    [][last'.op \in {"drain", "draincancelled", "framedstart"} =>
            (~bIsAsyncScanningInProgress /\ ~bIsFramedProcessingInProgress)]_vars

\* C18: the background task only enumerates: its step leaves the cache, the
\* pending sets, the exclusion rule set and the memoized fingerprints as they
\* are, and what it hands over is the enumeration alone, whatever those hold.
C18_BackgroundOnlyEnumerates ==
    [][(scanStage = "dispatched" /\ scanStage' # scanStage) =>
            /\ UNCHANGED <<ExportedFilesHashCache, cacheFile, PendingBlueprints,
                           PendingNativeTypes, ExcludedPaths, bPathsLoaded, FieldHashCache,
                           FieldHashCacheTimestamp>>
            /\ scanBlueprintAssets' = BlueprintOrder
            /\ scanNativeTypes' = SelectSeq(TypeOrder, IsEnumerated)]_vars

\* the background task has run while identifiers were pending from an
\* earlier scan
C18_Witness == scanStage = "enumerated" /\ HasPendingChanges(Mgr)

\* number of times the emitter was handed item in the invocations of Log
TimesHandled(Log, item) ==
    Cardinality({ij \in {<<i, j>> : i \in 1..Len(Log), j \in 1..ItemsPerFrame} :
                    /\ ij[2] <= Len(Log[ij[1]].Handled)
                    /\ Log[ij[1]].Handled[ij[2]] = item})

\* the sliced drain has just completed
FramedDone ==
    \/ last.op = "framedcomplete"
    \/ last.op = "framedstart" /\ framedTimer = "none"

\* C20: when a sliced drain completes, the emitter has been invoked exactly
\* once for every identifier that was in the pending sets when
\* StartFramedProcessing was called.
C20_DrainEmitsPendingOnce ==
    FramedDone =>
        \A item \in Range(Tagged("bp", framedAtStart.pendingBP))
                        \cup Range(Tagged("type", framedAtStart.pendingNT)) :
            TimesHandled(framedLog, item) = 1

----------------------------------------------------------------------------
(* The sliced drain on given snapshot arrays.  The sources hold no writer  *)
(* of ScannedBlueprintAssets and ScannedNativeTypes, so the arrays the     *)
(* drain walks are taken as given: up to MaxFramedAssets assets and the    *)
(* reflected type.                                                         *)

MaxFramedAssets == 12

AssetNames == <<"a", "b", "c", "d", "e", "f", "g", "h", "i", "j", "k", "l", "m", "n">>

\* object path of the i-th asset of the snapshot
FramedAsset(i) == <<"/", "G", "/", AssetNames[i]>>

InitSliced ==
    /\ InitManager
    /\ InitHost
    /\ InitFw
    /\ InitFn
    /\ configFile = AbsentConfigFile
    /\ cacheFile = SeededCacheFile
    /\ \E n \in 0..MaxFramedAssets : ScannedBlueprintAssets = [i \in 1..n |-> FramedAsset(i)]
    /\ ScannedNativeTypes \in {<<>>, TypeOrder}
    /\ bIsFramedProcessingInProgress = FALSE
    /\ CurrentBlueprintIndex = 0
    /\ CurrentNativeTypeIndex = 0
    /\ framedTimer = "none"
    /\ playWorld = FALSE
    /\ orphanTimer = FALSE
    /\ framedAtStart = NoDrain
    /\ framedLog = <<>>

NextFramed ==
    \/ Initialize
    \/ StartFramedProcessing
    \/ ProcessFramedStepWrapper

SpecFramed == InitSliced /\ [][NextFramed]_vars

Least(a, b) == IF a < b THEN a ELSE b

CeilDiv(n, d) == (n + d - 1) \div d

\* C19: with N >= 1 items in the snapshot arrays, the i-th invocation of the
\* step handles exactly the next min(5, remaining) items of the assets
\* followed by the types, one budget for both, and reports completion on
\* invocation ceil(N/5) and on no other; 12 assets and no type take the
\* three invocations 5, 5, 2.
C19_FiveItemsPerStep ==
    LET All == Tagged("bp", framedAtStart.blueprints) \o Tagged("type", framedAtStart.types)
        N == Len(All)
    IN  (framedAtStart.started /\ N >= 1) =>
            /\ Len(framedLog) <= CeilDiv(N, 5)
            /\ \A i \in 1..Len(framedLog) :
                    /\ framedLog[i].Handled = SubSeq(All, 5 * (i - 1) + 1, Least(5 * i, N))
                    /\ framedLog[i].More = (i < CeilDiv(N, 5))
            /\ last.op = "framedcomplete" => Len(framedLog) = CeilDiv(N, 5)

\* the drain of 12 assets and no type has completed in three invocations
C19_Witness ==
    /\ framedAtStart.started
    /\ Len(framedAtStart.blueprints) = 12
    /\ framedAtStart.types = <<>>
    /\ last.op = "framedcomplete"
    /\ Len(framedLog) = 3
    /\ Len(framedLog[1].Handled) = 5
    /\ Len(framedLog[2].Handled) = 5
    /\ Len(framedLog[3].Handled) = 2

----------------------------------------------------------------------------
(* Immediate drains of a session that has loaded two reflected types, one  *)
(* of which may be unloaded between the scan and the drain.  Blueprint     *)
(* export is disabled and there is no cache file when the session starts.  *)

AbsentCacheFile == [kind |-> "absent", HashCache |-> EmptyMap]

InitDrain ==
    /\ InitManager
    /\ InitFramed
    /\ InitFw
    /\ InitFn
    /\ bExportBlueprintFiles = FALSE
    /\ bAutoStartScanOnStartup \in BOOLEAN
    /\ diskWritable = TRUE
    /\ files = [p \in PackageNames |-> Present(1)]
    /\ typeShape = [t \in {T1, T3} |-> 1]
    /\ typeLife = [t \in {T1, T3} |-> "live"]
    /\ now = 0
    /\ envChanges = 0
    /\ configFile = AbsentConfigFile
    /\ cacheFile = AbsentCacheFile

NextDrain ==
    \/ Initialize
    \/ ScanExistingAssets
    \/ BackgroundScan
    \/ OnAsyncScanCompletedWatched
    \/ OnExportConfirmedWatched
    \/ DestroyType

SpecDrain == InitDrain /\ [][NextDrain]_vars

\* the step is a run of the drain loops of ExportIncremental: the
\* confirmation button, or a manual-mode scan whose analysis queued something
DrainRan ==
    \/ last'.op \in {"drain", "draincancelled"}
    \/ /\ last'.op = "scan"
       /\ ~bAutoStartScanOnStartup
       /\ Len(last'.pendingBP) + Len(last'.pendingNT) > 0

\* the pending items the drain of this step started from, assets then types
DrainStart == Tagged("bp", last'.pendingBP) \o Tagged("type", last'.pendingNT)

\* the cache file as the step found it, or as the scan's analysis saved it
\* before the drain started
FileBeforeDrain ==
    IF last'.op = "scan"
    THEN SaveExportCache(ScanAnalysis(Mgr, scanBlueprintAssets, scanNativeTypes)).cacheFile
    ELSE cacheFile

\* C21: in the immediate drain every emitter call for a pending asset
\* precedes every emitter call for a pending type; the cancellation flag is
\* read before each item, so a drain whose k-th read sees the flag has handed
\* at most the first k-1 items to the emitter; and such a drain saves no
\* cache file and leaves the pending sets as they were.  A drain that is not
\* cancelled hands every pending asset to the emitter.
C21_DrainOrderAndCancel ==
    [][DrainRan =>
        /\ \A i \in 1..Len(last'.calls) : \A j \in 1..Len(last'.calls) :
                (last'.calls[i][1] = "type" /\ last'.calls[j][1] = "bp") => j < i
        /\ last'.cancelAt > 0 =>
                /\ Range(last'.calls) \subseteq
                        Range(SubSeq(DrainStart, 1, last'.cancelAt - 1))
                /\ cacheFile' = FileBeforeDrain
                /\ PendingBlueprints' = last'.pendingBP
                /\ PendingNativeTypes' = last'.pendingNT
        /\ last'.cancelAt = 0 =>
                /\ Range(Tagged("bp", last'.pendingBP)) \subseteq Range(last'.calls)
                /\ ~HasPendingChanges(Mgr)']_vars

\* a drain of an asset and a type was cancelled at the read that follows the
\* type, after both were handed to the emitter
C21_Witness ==
    /\ last.op = "draincancelled"
    /\ last.cancelAt = 3
    /\ last.calls = <<<<"bp", BP1>>, <<"type", T1>>>>
    /\ HasPendingChanges(Mgr)

\* the object of the type has been destroyed
Unloaded(Field) == typeLife[Field] \in {"freed", "gone"}

\* C30: in the immediate drain a pending type whose weak reference is no
\* longer live is not handed to the emitter and its cache entry stays as it
\* was; the drain goes on: every later pending type that is live and was
\* reached before a cancellation is handed to the emitter, and a drain that
\* is not cancelled saves the cache and clears the pending sets.
C30_DeadTypeSkipped ==
    [][DrainRan =>
        \A i \in 1..Len(DrainStart) :
            (DrainStart[i][1] = "type" /\ Unloaded(DrainStart[i][2])) =>
                /\ DrainStart[i] \notin Range(last'.calls)
                /\ last'.op # "scan" =>
                        EntryOf(ExportedFilesHashCache', DrainStart[i][2])
                            = EntryOf(ExportedFilesHashCache, DrainStart[i][2])
                /\ \A j \in (i + 1)..Len(DrainStart) :
                        (~Unloaded(DrainStart[j][2])
                            /\ (last'.cancelAt = 0 \/ j < last'.cancelAt))
                        => DrainStart[j] \in Range(last'.calls)
                /\ last'.cancelAt = 0 =>
                        /\ ~HasPendingChanges(Mgr)'
                        /\ cacheFile'.HashCache = ExportedFilesHashCache']_vars

\* a drain met the first pending type dead and went on to emit the second
C30_Witness ==
    /\ last.op = "drain"
    /\ last.pendingNT = <<T1, T3>>
    /\ Unloaded(T1)
    /\ <<"type", T3>> \in Range(last.calls)
    /\ T3 \in DOMAIN ExportedFilesHashCache
    /\ T1 \notin DOMAIN ExportedFilesHashCache

----------------------------------------------------------------------------
(* Every bulk operation of one editor session and its shutdown, on a disk  *)
(* that takes every write.                                                 *)

NextBulk ==
    \/ Initialize
    \/ Deinitialize
    \/ ScanExistingAssets
    \/ BackgroundScan
    \/ OnAsyncScanCompletedWatched
    \/ OnExportConfirmedWatched
    \/ ExportAllCommandWatched
    \/ StartFramedProcessing
    \/ ProcessFramedStepWrapper

\* the settings of a fresh project: blueprint export off, scans started by hand
InitBulk ==
    /\ InitManager
    /\ InitFramed
    /\ InitHost
    /\ InitFw
    /\ InitFn
    /\ configFile = AbsentConfigFile
    /\ cacheFile = SeededCacheFile

SpecBulk == InitBulk /\ [][NextBulk]_vars

\* the cache file holds exactly the in-memory cache
FileInSync == cacheFile.kind = "hash" /\ cacheFile.HashCache = ExportedFilesHashCache

\* C22: the cache file is in sync with the in-memory cache right after
\* Deinitialize's save (the file holds the cache as it was before Deinitialize
\* emptied it), after a completed scan analysis, after a completed immediate
\* drain, after a completed sliced drain (CompleteFramedProcessing has run)
\* and after a completed ExportAll.
C22_FileInSyncAfterBulk ==
    [][/\ (bInitialized /\ ~bInitialized') =>
            (cacheFile'.kind = "hash" /\ cacheFile'.HashCache = ExportedFilesHashCache)
       /\ (last'.op = "scan" /\ last'.cancelAt = 0) => FileInSync'
       /\ last'.op = "drain" => FileInSync'
       /\ last'.op = "framedcomplete" => FileInSync'
       /\ (last'.op = "exportall" /\ last'.cancelAt = 0) => FileInSync']_vars

----------------------------------------------------------------------------
(* One call of GetCachedFieldHash on a memo filled earlier in the session: *)
(* each of the two reflected types may have a fingerprint that was         *)
(* computed, at one of the times of MemoStamps, while the type had shape   *)
(* 1; the type may have been hot-reloaded since.  The call is made at      *)
(* MemoNow, so the entries are 299, 300 or 301 seconds old.                *)

MemoStamps == {0, 1, 2}

MemoNow == HASH_CACHE_EXPIRE_TIME + 1

InitMemo ==
    /\ InitMembers
    /\ InitFramed
    /\ InitFw
    /\ bExportBlueprintFiles = FALSE
    /\ bAutoStartScanOnStartup = FALSE
    /\ diskWritable = TRUE
    /\ files = [p \in PackageNames |-> Present(1)]
    /\ typeShape \in [{T1, T3} -> Contents]
    /\ typeLife = [t \in {T1, T3} |-> "live"]
    /\ now = MemoNow
    /\ envChanges = 0
    /\ configFile = AbsentConfigFile
    /\ cacheFile = SeededCacheFile
    /\ \E D \in SUBSET {T1, T3} :
            /\ FieldHashCache = [t \in D |-> SHA1(<<"signature", t, 1>>)]
            /\ FieldHashCacheTimestamp \in [D -> MemoStamps]
    /\ fnPhase = "memoInput"
    /\ fnVia = "memo"
    /\ fnPath \in {T1, T3}
    /\ fnRules = {}
    /\ fnHash = Empty
    /\ fnCache = EmptyMap
    /\ fnResult = FALSE
    /\ fnIterations = 0
    /\ fnCacheAfter = EmptyMap
    /\ fnFirst = Empty
    /\ fnSecond = Empty
    /\ fnArtifact = <<>>

\* one call GetCachedFieldHash(fnPath); fnArtifact keeps the memo the call found
CallGetCachedFieldHash ==
    /\ fnPhase = "memoInput"
    /\ fnPhase' = "memoized"
    /\ \E r \in {GetCachedFieldHash(Mgr, fnPath)} :
            /\ Commit(r.M)
            /\ fnFirst' = r.Hash
    /\ fnArtifact' = <<FieldHashCache, FieldHashCacheTimestamp>>
    /\ UNCHANGED <<taskVars, settingVars, hostVars, last, idem, fwVars, fnRules, fnPath,
                   fnHash, fnCache, fnResult, fnIterations, fnCacheAfter, fnVia, fnSecond>>

NextMemo == CallGetCachedFieldHash

SpecMemo == InitMemo /\ [][NextMemo]_vars

\* C23: GetCachedFieldHash returns the memoized fingerprint, leaving its
\* stamp alone, only when the entry was stamped strictly less than 300
\* seconds before the call; otherwise it returns the fingerprint computed
\* now, stores it and stamps it with the time of the call; and after the
\* call no memo entry is older than 300 seconds.
C23_MemoWindow ==
    [][(fnPhase = "memoInput" /\ fnPhase' = "memoized") =>
        LET Fresh == /\ fnPath \in DOMAIN FieldHashCache
                     /\ fnPath \in DOMAIN FieldHashCacheTimestamp
                     /\ now - FieldHashCacheTimestamp[fnPath] < 300
        IN  /\ Fresh => /\ fnFirst' = FieldHashCache[fnPath]
                        /\ FieldHashCacheTimestamp'[fnPath] = FieldHashCacheTimestamp[fnPath]
            /\ ~Fresh => /\ fnFirst' = GetFieldAssetHash(fnPath)
                         /\ FieldHashCache'[fnPath] = fnFirst'
                         /\ FieldHashCacheTimestamp'[fnPath] = now
            /\ \A k \in DOMAIN FieldHashCacheTimestamp' :
                    now - FieldHashCacheTimestamp'[k] <= 300
            /\ DOMAIN FieldHashCache' = DOMAIN FieldHashCacheTimestamp']_vars

\* the call found /Script/E.T stamped exactly 300 seconds ago and hot-reloaded
\* since, and /Script/E.W stamped 301 seconds ago: it recomputed and
\* re-stamped the first and purged the second
C23_Witness ==
    /\ fnPhase = "memoized"
    /\ fnPath = T1
    /\ typeShape[T1] = 2
    /\ fnArtifact[2] = (T1 :> 1) @@ (T3 :> 0)
    /\ fnFirst = SHA1(<<"signature", T1, 2>>)
    /\ FieldHashCacheTimestamp = (T1 :> now)

----------------------------------------------------------------------------
(* Sessions that start on every kind of ExportCache.json: none, one that   *)
(* cannot be read, one that is not JSON, one without a "HashCache" object  *)
(* and a well-formed one.  For a file that is not loaded, HashCache holds  *)
(* the pairs a reader that ignored the defect would find in it.            *)

UnreadableCacheFile == [kind |-> "unreadable", HashCache |-> SeededCacheFile.HashCache]

UnparseableCacheFile == [kind |-> "unparseable", HashCache |-> EmptyMap]

OldFormatCacheFile == [kind |-> "oldformat", HashCache |-> (BP1 :> FileHash(1))]

UnusableCacheFiles ==
    {AbsentCacheFile, UnreadableCacheFile, UnparseableCacheFile, OldFormatCacheFile}

InitLoad ==
    /\ InitManager
    /\ InitFramed
    /\ InitFw
    /\ InitFn
    /\ bExportBlueprintFiles \in BOOLEAN
    /\ bAutoStartScanOnStartup \in BOOLEAN
    /\ diskWritable = TRUE
    /\ files = [p \in PackageNames |-> Present(1)]
    /\ typeShape = [t \in Types |-> 1]
    /\ typeLife = [t \in Types |-> "live"]
    /\ now = 0
    /\ envChanges = 0
    /\ configFile \in {AbsentConfigFile, PresentConfigFile}
    /\ cacheFile \in UnusableCacheFiles \cup {SeededCacheFile}

NextLoad ==
    \/ Initialize
    \/ ScanExistingAssets
    \/ BackgroundScan
    \/ OnAsyncScanCompletedWatched
    \/ OnExportConfirmedWatched

SpecLoad == InitLoad /\ [][NextLoad]_vars

\* the scan considers blueprint bp for export at all
Eligible(bp) ==
    /\ bExportBlueprintFiles
    /\ ~IsExcluded(Mgr, bp)
    /\ FileExists(NormalizePath(bp))

\* C24: Initialize on a missing, unreadable, unparseable or old-format cache
\* file completes: the manager is initialized and its in-memory cache is
\* empty, so the change check answers "export" for every identifier and
\* every fingerprint; and a scan that starts from the empty cache queues every
\* enumerated type and every blueprint it considers for export.
C24_UnusableCacheFileIsEmptyCache ==
    [][/\ (~bInitialized /\ bInitialized' /\ cacheFile \in UnusableCacheFiles) =>
            /\ ExportedFilesHashCache' = EmptyMap
            /\ \A id \in Ids : \A h \in {Empty, FileHash(1), GetFieldAssetHash(T1)} :
                    ShouldReexportByHash(ExportedFilesHashCache', id, h)
            /\ cacheFile' = cacheFile
       /\ (last'.op = "scan" /\ ExportedFilesHashCache = EmptyMap) =>
            /\ \A bp \in Range(scanBlueprintAssets) :
                    Eligible(bp) => bp \in Range(last'.pendingBP)
            /\ \A t \in Range(scanNativeTypes) : t \in Range(last'.pendingNT)]_vars

\* Initialize has run on an old-format file
C24_Witness ==
    /\ bInitialized
    /\ cacheFile = OldFormatCacheFile
    /\ ExportedFilesHashCache = EmptyMap

----------------------------------------------------------------------------
(* Structural fingerprint of a class.  A class description is the part of  *)
(* a UClass that CalculateClassStructureHash and the emitter can see:      *)
(*   name, parent (Empty: no super class), members and functions declared  *)
(*   by the class itself, in declaration order, and the members it         *)
(*   inherits.  A member or parameter is [name, kind], kind being the name *)
(*   of its FProperty class; a function is [name, ret, params], ret being  *)
(*   the kind of its return property or Empty.                             *)
(* The fixed pieces of the format are single elements of the signature;    *)
(* names are spelled character by character.                               *)

MaxMembers == 2
MaxParams == 1

\* the concatenation of a sequence of strings
RECURSIVE Flat(_)
Flat(ss) == IF ss = <<>> THEN <<>> ELSE Head(ss) \o Flat(Tail(ss))

\* a member signature that leaves the kind out
PropertySignature_NameOnly(Property) ==
    <<"Name:">> \o Property.name \o <<",">> \o <<";">>

\* "Name:%s," "Type:%s," ";" for one locally declared member
PropertySignature(Property) ==
    <<"Name:">> \o Property.name \o <<",">>
        \o <<"Type:">> \o Property.kind \o <<",">> \o <<";">>

\* "ParamName:%s,ParamType:%s;" for one parameter that is not the return value
ParamSignature(Param) ==
    <<"ParamName:">> \o Param.name \o <<",ParamType:">> \o Param.kind \o <<";">>

\* the signature of one locally declared function
FunctionSignature(Function) ==
    <<"Name:">> \o Function.name \o <<",">>
        \o (IF Function.ret # Empty
            THEN <<"ReturnType:">> \o Function.ret \o <<",">>
            ELSE <<"ReturnType:">> \o <<"v", "o", "i", "d">> \o <<",">>)
        \o <<"Params:[">>
        \o Flat([i \in 1..Len(Function.params) |-> ParamSignature(Function.params[i])])
        \o <<"],">> \o <<";">>

\* SignatureString of CalculateClassStructureHash
SignatureString(Class) ==
    <<"ClassName:">> \o Class.name \o <<";">>
        \o (IF Class.parent # Empty
            THEN <<"ParentClass:">> \o Class.parent \o <<";">>
            ELSE <<"ParentClass:">> \o <<"N", "o", "n", "e">> \o <<";">>)
        \o <<"Properties:[">>
        \o Flat([i \in 1..Len(Class.members) |-> PropertySignature(Class.members[i])])
        \o <<"];">>
        \o <<"Functions:[">>
        \o Flat([i \in 1..Len(Class.functions) |-> FunctionSignature(Class.functions[i])])
        \o <<"];">>

\* CalculateClassStructureHash of a live class
CalculateClassStructureHash(Class) == SHA1(SignatureString(Class))

\* identifiers and property kinds of the modelled classes
FieldNames == {<<"a">>, <<"a", "b">>}
Kinds == {<<"I">>, <<"S">>}

Properties == [name : FieldNames, kind : Kinds]

\* every sequence over S of at most n elements
SeqsUpTo(S, n) == UNION {[1..k -> S] : k \in 0..n}

Functions == [name : FieldNames, ret : {Empty, <<"I">>}, params : SeqsUpTo(Properties, MaxParams)]

ClassDescriptions ==
    [name : {<<"T">>}, parent : {Empty, <<"P">>}, members : SeqsUpTo(Properties, MaxMembers),
     functions : SeqsUpTo(Functions, 1), inherited : {<<>>}]

\* s with x inserted so that it becomes element i
InsertAt(s, i, x) == SubSeq(s, 1, i - 1) \o <<x>> \o SubSeq(s, i, Len(s))

\* s without element i
RemoveAt(s, i) == SubSeq(s, 1, i - 1) \o SubSeq(s, i + 1, Len(s))

\* the descriptions one change of a locally declared member or parameter, or
\* the renaming of a function, makes of Class: [how, Class]
StructuralEdits(Class) ==
    {[how |-> "addMember", Class |-> [Class EXCEPT !.members = InsertAt(@, i, p)]] :
        i \in 1..(Len(Class.members) + 1), p \in Properties}
    \cup {[how |-> "removeMember", Class |-> [Class EXCEPT !.members = RemoveAt(@, i)]] :
        i \in 1..Len(Class.members)}
    \cup UNION {{[how |-> "memberKind", Class |-> [Class EXCEPT !.members[i].kind = k]] :
                    k \in Kinds \ {Class.members[i].kind}} :
                i \in 1..Len(Class.members)}
    \cup UNION {{[how |-> "addParam",
                  Class |-> [Class EXCEPT !.functions[f].params = InsertAt(@, i, p)]] :
                    i \in 1..(Len(Class.functions[f].params) + 1), p \in Properties} :
                f \in 1..Len(Class.functions)}
    \cup UNION {{[how |-> "removeParam",
                  Class |-> [Class EXCEPT !.functions[f].params = RemoveAt(@, i)]] :
                    i \in 1..Len(Class.functions[f].params)} :
                f \in 1..Len(Class.functions)}
    \cup UNION {UNION {{[how |-> "paramKind",
                         Class |-> [Class EXCEPT !.functions[f].params[i].kind = k]] :
                            k \in Kinds \ {Class.functions[f].params[i].kind}} :
                        i \in 1..Len(Class.functions[f].params)} :
                f \in 1..Len(Class.functions)}
    \cup UNION {{[how |-> "renameFunction", Class |-> [Class EXCEPT !.functions[f].name = n]] :
                    n \in FieldNames \ {Class.functions[f].name}} :
                f \in 1..Len(Class.functions)}

\* the descriptions a change outside the class's own declarations makes of
\* Class: a member gained through the parent class
OtherEdits(Class) ==
    {[how |-> "inherited", Class |-> [Class EXCEPT !.inherited = Append(@, p)]] :
        p \in Properties}

InitClass ==
    /\ InitManager
    /\ InitFramed
    /\ InitHost
    /\ InitFw
    /\ configFile = AbsentConfigFile
    /\ cacheFile = SeededCacheFile
    /\ fnPhase = "classInput"
    /\ fnVia = "none"
    /\ fnArtifact \in {<<Class>> : Class \in ClassDescriptions}
    /\ fnPath = Empty
    /\ fnRules = {}
    /\ fnHash = Empty
    /\ fnCache = EmptyMap
    /\ fnResult = FALSE
    /\ fnIterations = 0
    /\ fnCacheAfter = EmptyMap
    /\ fnFirst = Empty
    /\ fnSecond = Empty

\* the class is fingerprinted, changed (hot reload) and fingerprinted again
HashClassTwice ==
    /\ fnPhase = "classInput"
    /\ fnPhase' = "classHashed"
    /\ \E e \in StructuralEdits(fnArtifact[1]) \cup OtherEdits(fnArtifact[1]) :
            /\ fnVia' = e.how
            /\ fnArtifact' = <<fnArtifact[1], e.Class>>
            /\ fnFirst' = CalculateClassStructureHash(fnArtifact[1])
            /\ fnSecond' = CalculateClassStructureHash(e.Class)
    /\ UNCHANGED <<mgrVars, taskVars, host, last, idem, fwVars, fnRules, fnPath, fnHash,
                   fnCache, fnResult, fnIterations, fnCacheAfter>>

NextClass == HashClassTwice

SpecClass == InitClass /\ [][NextClass]_vars

\* the two descriptions agree in name, parent, local members and local functions
SameDeclarations(A, B) ==
    /\ A.name = B.name
    /\ A.parent = B.parent
    /\ A.members = B.members
    /\ A.functions = B.functions

\* C25: with the hash injective on signature strings, two class descriptions
\* that differ by an added, removed or kind-changed local member or function
\* parameter, or by a renamed function, have different structural
\* fingerprints; two descriptions with the same name, parent, local members
\* and local functions, in order, have equal fingerprints.
C25_StructuralFingerprint ==
    fnPhase = "classHashed" =>
        /\ fnVia \in {"addMember", "removeMember", "memberKind", "addParam", "removeParam",
                       "paramKind", "renameFunction"} => fnSecond # fnFirst
        /\ SameDeclarations(fnArtifact[1], fnArtifact[2]) => fnSecond = fnFirst

\* a parameter of a function changed its kind between the two fingerprints
C25_Witness ==
    /\ fnPhase = "classHashed"
    /\ fnVia = "paramKind"
    /\ Len(fnArtifact[1].members) = 2
    /\ fnSecond # fnFirst

----------------------------------------------------------------------------
(* The pending collections: query and reset *)

\* HasPendingChanges(), asked by the editor module and the menu
CallHasPendingChanges ==
    /\ bInitialized
    /\ last' = [op |-> "haspending", result |-> HasPendingChanges(Mgr)] @@ NoOp
    /\ UNCHANGED <<mgrVars, taskVars, host, idem, otherVars>>

\* ClearPendingChanges(), called from outside a drain
CallClearPendingChanges ==
    /\ bInitialized
    /\ Commit(ClearPendingChanges(Mgr))
    /\ last' = [NoOp EXCEPT !.op = "clearpending", !.pendingBP = PendingBlueprints,
                            !.pendingNT = PendingNativeTypes]
    /\ UNCHANGED <<taskVars, host, idem, otherVars>>

NextPending ==
    \/ Initialize
    \/ ScanExistingAssets
    \/ BackgroundScan
    \/ OnAsyncScanCompletedWatched
    \/ OnExportConfirmedWatched
    \/ CallHasPendingChanges
    \/ CallClearPendingChanges

SpecPending == InitWork /\ [][NextPending]_vars

\* C26: HasPendingChanges() is true exactly when at least one of the two
\* pending collections is non-empty; ClearPendingChanges() empties both
\* collections and leaves the cache, in memory and on disk, as it was.
C26_PendingQueryAndClear ==
    [][/\ last'.op = "haspending" =>
            (last'.result <=> (PendingBlueprints # <<>> \/ PendingNativeTypes # <<>>))
       /\ last'.op = "clearpending" =>
            /\ PendingBlueprints' = <<>>
            /\ PendingNativeTypes' = <<>>
            /\ ExportedFilesHashCache' = ExportedFilesHashCache
            /\ cacheFile' = cacheFile]_vars

\* both collections held something and the cache was not empty when they were cleared
C26_Witness ==
    /\ last.op = "clearpending"
    /\ last.pendingBP # <<>>
    /\ last.pendingNT # <<>>
    /\ PendingBlueprints = <<>>
    /\ PendingNativeTypes = <<>>
    /\ ExportedFilesHashCache # EmptyMap

----------------------------------------------------------------------------
(* ShouldReexport of the file-watcher manager, called on its own *)

MaxStamp == 2

\* modification and export times
Stamps == 0..MaxStamp

InitStamp ==
    /\ InitManager
    /\ InitFramed
    /\ InitHost
    /\ configFile = AbsentConfigFile
    /\ cacheFile = FW_AbsentCacheFile
    /\ ExportedFilesCache \in UNION {[D -> Stamps] : D \in SUBSET Blueprints}
    /\ FileComparisonMethod \in {"Timestamp", "Hash"}
    /\ fileTime \in [PackageNames -> Stamps \cup {MinValue}]
    /\ InitWatch
    /\ fnPhase = "stampInput"
    /\ fnVia = "none"
    /\ fnPath \in Blueprints
    /\ fnArtifact \in Stamps \cup {MinValue}
    /\ fnRules = {}
    /\ fnHash = Empty
    /\ fnCache = EmptyMap
    /\ fnResult = FALSE
    /\ fnIterations = 0
    /\ fnCacheAfter = EmptyMap
    /\ fnFirst = Empty
    /\ fnSecond = Empty

\* one call of the const method ShouldReexport(AssetPath, AssetFilePath) on
\* the asset fnPath and its package file
CallShouldReexportOfFile ==
    /\ fnPhase = "stampInput"
    /\ fnPhase' = "stamp"
    /\ fnVia' = "file"
    /\ fnResult' = FW_ShouldReexport(FW_Mgr, fnPath, NormalizePath(fnPath))
    /\ fnCacheAfter' = ExportedFilesCache
    /\ UNCHANGED <<mgrVars, taskVars, host, last, idem, fwVars, fnRules, fnPath, fnHash,
                   fnCache, fnIterations, fnFirst, fnSecond, fnArtifact>>

\* one call of the const method ShouldReexport(AssetPath, AssetModifyTime) on
\* the identifier fnPath and the time fnArtifact
CallShouldReexportOfTime ==
    /\ fnPhase = "stampInput"
    /\ fnPhase' = "stamp"
    /\ fnVia' = "time"
    /\ fnResult' = FW_ShouldReexportByTime(FW_Mgr, fnPath, fnArtifact)
    /\ fnCacheAfter' = ExportedFilesCache
    /\ UNCHANGED <<mgrVars, taskVars, host, last, idem, fwVars, fnRules, fnPath, fnHash,
                   fnCache, fnIterations, fnFirst, fnSecond, fnArtifact>>

NextStamp ==
    \/ CallShouldReexportOfFile
    \/ CallShouldReexportOfTime

SpecStamp == InitStamp /\ [][NextStamp]_vars

\* the modification time the call compared
ComparedTime == IF fnVia = "file" THEN fileTime[NormalizePath(fnPath)] ELSE fnArtifact

\* C27: in timestamp mode, for an artifact with a readable modification time
\* t, ShouldReexport is true exactly when the cache has no entry for the
\* identifier or t is strictly greater than the cached time; equal times do
\* not trigger a re-export, and the query leaves the cache as it was.
C27_TimestampReexport ==
    /\ [](fnPhase = "stamp" /\ FileComparisonMethod = "Timestamp" /\ ComparedTime # MinValue =>
            /\ fnResult <=> (\/ fnPath \notin DOMAIN ExportedFilesCache
                             \/ ComparedTime > ExportedFilesCache[fnPath])
            /\ fnCacheAfter = ExportedFilesCache)
    /\ [][fnPhase' = "stamp" => ExportedFilesCache' = ExportedFilesCache]_vars

\* the file is exactly as old as its cache entry and is not exported again
C27_Witness ==
    /\ fnPhase = "stamp"
    /\ fnVia = "file"
    /\ FileComparisonMethod = "Timestamp"
    /\ fnPath \in DOMAIN ExportedFilesCache
    /\ ComparedTime = ExportedFilesCache[fnPath]
    /\ ~fnResult

----------------------------------------------------------------------------
(* The sliced drain under a timer manager that keeps delivering the ticks  *)
(* of a repeating timer it was given                                       *)

SpecFramedFair == InitSliced /\ [][NextFramed]_vars /\ WF_vars(ProcessFramedStepWrapper)

\* C28: every accepted StartFramedProcessing is eventually followed by
\* completion, with fair timer ticks and also when no world is available and
\* the steps run inside the call: CompleteFramedProcessing runs and
\* bIsFramedProcessingInProgress becomes false again.
C28_FramedProcessingCompletes ==
    bIsFramedProcessingInProgress ~>
        (last.op = "framedcomplete" /\ ~bIsFramedProcessingInProgress)

----------------------------------------------------------------------------
(* Cursors and progress of the sliced drain *)

\* the asset cursor after invocation i of the running drain, 0 before the first
BlueprintIndexAfter(i) == IF i = 0 THEN 0 ELSE framedLog[i].BlueprintIndex

\* the type cursor after invocation i of the running drain, 0 before the first
NativeTypeIndexAfter(i) == IF i = 0 THEN 0 ELSE framedLog[i].NativeTypeIndex

\* C29: during a sliced drain both cursors never decrease, each stays
\* between 0 and the length of its snapshot array, the type cursor advances
\* only when the asset cursor has reached the end of the asset array, and the
\* progress shown after each item is (asset cursor + type cursor) out of the
\* total number of snapshot items.
C29_CursorsAndProgress ==
    /\ [](framedAtStart.started =>
            LET NB == Len(framedAtStart.blueprints)
                NT == Len(framedAtStart.types)
            IN  \A i \in 1..Len(framedLog) :
                    /\ BlueprintIndexAfter(i - 1) <= BlueprintIndexAfter(i)
                    /\ NativeTypeIndexAfter(i - 1) <= NativeTypeIndexAfter(i)
                    /\ BlueprintIndexAfter(i) \in 0..NB
                    /\ NativeTypeIndexAfter(i) \in 0..NT
                    /\ NativeTypeIndexAfter(i) > NativeTypeIndexAfter(i - 1) =>
                            BlueprintIndexAfter(i) = NB
                    /\ Len(framedLog[i].Shown) = Len(framedLog[i].Handled)
                    /\ \A k \in 1..Len(framedLog[i].Shown) :
                            framedLog[i].Shown[k] =
                                <<BlueprintIndexAfter(i - 1) + NativeTypeIndexAfter(i - 1) + k,
                                  NB + NT>>
                    /\ framedLog[i].Shown # <<>> =>
                            framedLog[i].Shown[Len(framedLog[i].Shown)] =
                                <<BlueprintIndexAfter(i) + NativeTypeIndexAfter(i), NB + NT>>)
    /\ [](bIsFramedProcessingInProgress =>
            /\ CurrentBlueprintIndex \in 0..Len(ScannedBlueprintAssets)
            /\ CurrentNativeTypeIndex \in 0..Len(ScannedNativeTypes))
    /\ [][bIsFramedProcessingInProgress /\ bIsFramedProcessingInProgress' =>
            /\ CurrentBlueprintIndex' >= CurrentBlueprintIndex
            /\ CurrentNativeTypeIndex' >= CurrentNativeTypeIndex
            /\ CurrentNativeTypeIndex' > CurrentNativeTypeIndex =>
                    CurrentBlueprintIndex' = Len(ScannedBlueprintAssets)]_vars

\* the third tick of a drain of 12 assets and one type finishes the assets
\* and moves the type cursor
C29_Witness ==
    /\ framedAtStart.started
    /\ Len(framedAtStart.blueprints) = 12
    /\ Len(framedAtStart.types) = 1
    /\ Len(framedLog) = 3
    /\ framedLog[2].BlueprintIndex = 10
    /\ framedLog[2].NativeTypeIndex = 0
    /\ framedLog[3].BlueprintIndex = 12
    /\ framedLog[3].NativeTypeIndex = 1
    /\ framedLog[3].Shown = << <<11, 13>>, <<12, 13>>, <<13, 13>> >>

----------------------------------------------------------------------------
(* The exclusion rules over the life of the process: the config file is    *)
(* edited, the manager is shut down and initialized again, the filter is   *)
(* asked about single identifiers.  fnCache holds the first answer given   *)
(* for each identifier.                                                    *)

\* an ExcludedPaths.json that is not JSON
UnparseableConfigFile == [kind |-> "unparseable", paths |-> <<>>]

\* an ExcludedPaths.json with the one rule /G
OtherConfigFile == [kind |-> "present", paths |-> << <<"/", "G">> >>]

ConfigFiles == {AbsentConfigFile, PresentConfigFile, UnparseableConfigFile, OtherConfigFile}

\* ExcludedPaths.json is written, replaced or deleted
EditConfigFile ==
    /\ HostStep
    /\ \E c \in ConfigFiles \ {configFile} : configFile' = c
    /\ idem' = "none"
    /\ UNCHANGED <<settingVars, diskWritable, files, typeShape, typeLife, now>>

\* one query of the filter, as the scan and the cache update make it
CallIsExcluded ==
    /\ bInitialized
    /\ \E id \in Ids :
        \E M \in {LoadPathsOnce(Mgr)} :
        \E r \in {ShouldExcludeFromExport(M.ExcludedPaths, id)} :
            /\ Commit(M)
            /\ last' = [op |-> "isexcluded", id |-> id, result |-> r] @@ NoOp
            /\ fnCache' = IF id \in DOMAIN fnCache THEN fnCache ELSE Put(fnCache, id, r)
    /\ UNCHANGED <<taskVars, host, idem, fwVars, fnPhase, fnRules, fnPath, fnHash, fnResult,
                   fnIterations, fnCacheAfter, pairVars>>

InitRules ==
    /\ InitManager
    /\ InitFramed
    /\ InitHost
    /\ InitFw
    /\ InitFn
    /\ configFile \in ConfigFiles
    /\ cacheFile = SeededCacheFile

NextRules ==
    \/ Initialize
    \/ Deinitialize
    \/ ScanExistingAssets
    \/ BackgroundScan
    \/ OnAsyncScanCompletedWatched
    \/ EditConfigFile
    \/ CallIsExcluded

SpecRules == InitRules /\ [][NextRules]_vars

\* C31: the exclusion rule set is loaded on the first query and never
\* changes afterwards in the process; neither a later change of the config
\* file nor a failed first load changes the answer of a later query for the
\* same identifier.
C31_RulesLoadedOnce ==
    /\ [][bPathsLoaded => bPathsLoaded' /\ ExcludedPaths' = ExcludedPaths]_vars
    /\ [](last.op = "isexcluded" => bPathsLoaded /\ last.result = fnCache[last.id])

\* the first load failed on a file that was not JSON; the file has since been
\* replaced by one that excludes the identifier, and the answer is still no
C31_Witness ==
    /\ last.op = "isexcluded"
    /\ configAtLoad = "unparseable"
    /\ configFile = PresentConfigFile
    /\ last.id = BP2
    /\ ~last.result

----------------------------------------------------------------------------
(* Shutdown with a scan in flight: the completion is posted to the game    *)
(* thread with the manager captured by pointer and runs after Deinitialize *)
(* on the manager, which the collector has not reclaimed yet.              *)

\* C32: when Deinitialize has run while a scan was in flight, the completion
\* callback that arrives afterwards changes neither the pending sets nor the
\* in-memory cache and does not overwrite the cache file Deinitialize wrote.
C32_LateCompletionIsInert ==
    [][(~bInitialized /\ ScanCompletes) =>
            UNCHANGED <<PendingBlueprints, PendingNativeTypes, ExportedFilesHashCache,
                        cacheFile>>]_vars

----------------------------------------------------------------------------
(* The sliced drain while play-in-editor sessions start and end.  A timer  *)
(* lives in the timer manager of the world it was set in; the timers of a  *)
(* play world end with it.                                                 *)

\* a play-in-editor session starts: GetCurrentPlayWorld() is no longer null
BeginPlay ==
    /\ bInitialized
    /\ ~playWorld
    /\ playWorld' = TRUE
    /\ last' = NoOp
    /\ UNCHANGED <<mgrVars, scanVars, ScannedBlueprintAssets, ScannedNativeTypes,
                   bIsFramedProcessingInProgress, CurrentBlueprintIndex,
                   CurrentNativeTypeIndex, framedTimer, orphanTimer, framedAtStart,
                   framedLog, host, idem, otherVars>>

\* the play-in-editor session ends and its world is destroyed with its timers
EndPlay ==
    /\ playWorld
    /\ playWorld' = FALSE
    /\ framedTimer' = IF framedTimer = "play" THEN "none" ELSE framedTimer
    /\ last' = NoOp
    /\ UNCHANGED <<mgrVars, scanVars, ScannedBlueprintAssets, ScannedNativeTypes,
                   bIsFramedProcessingInProgress, CurrentBlueprintIndex,
                   CurrentNativeTypeIndex, orphanTimer, framedAtStart, framedLog, host,
                   idem, otherVars>>

NextWorlds ==
    \/ Initialize
    \/ StartFramedProcessing
    \/ ProcessFramedStepWrapper
    \/ BeginPlay
    \/ EndPlay

SpecWorlds == InitSliced /\ [][NextWorlds]_vars

\* C33: for each accepted StartFramedProcessing, CompleteFramedProcessing and
\* its cache save run at most once: they run only for a drain in progress,
\* and once the drain has completed no timer is left that calls
\* ProcessFramedStepWrapper, whichever world was current at the start and at
\* the completion.
C33_CompletesAtMostOnce ==
    /\ [][last'.op = "framedcomplete" => bIsFramedProcessingInProgress]_vars
    /\ [](~bIsFramedProcessingInProgress => framedTimer = "none" /\ ~orphanTimer)

----------------------------------------------------------------------------
(* The pending collections after a full export *)

\* C34: after ExportAll has run to completion without cancellation both
\* pending collections are empty, so that HasPendingChanges() is false and
\* no confirmation is offered for items ExportAll has just exported.
C34_ExportAllLeavesNothingPending ==
    [][(last'.op = "exportall" /\ last'.cancelAt = 0) =>
            (PendingBlueprints' = <<>> /\ PendingNativeTypes' = <<>>)]_vars

----------------------------------------------------------------------------
(* Scans that are cancelled, and cancel requests that find no scan *)

NextCancel ==
    \/ Initialize
    \/ Deinitialize
    \/ ScanExistingAssets
    \/ BackgroundScan
    \/ CancelAsyncScanWatched
    \/ OnAsyncScanCompletedWatched
    \/ OnExportConfirmedWatched

SpecCancel == InitWork /\ [][NextCancel]_vars

\* C35: in every reachable state the cancel flag is set only while a scan is
\* in progress; CancelAsyncScan without a running scan changes nothing; a
\* cancel request made for one scan never cancels a later scan: the flag is
\* clear when a scan is accepted and is set by no step other than a cancel
\* request that finds a scan running.
C35_CancelOnlyWhileScanning ==
    /\ [](bScanCancelled => bIsAsyncScanningInProgress)
    /\ [][last'.op = "cancelrefused" => UNCHANGED <<mgrVars, taskVars>>]_vars
    /\ [][scansInFlight' > scansInFlight => ~bScanCancelled']_vars
    /\ [][(bScanCancelled' /\ ~bScanCancelled) =>
            (last'.op = "cancel" /\ bIsAsyncScanningInProgress)]_vars

\* a cancel request arrives after the cancelled scan has completed and its
\* pending sets were left as they were
C35_Witness ==
    /\ last.op = "cancelrefused"
    /\ bInitialized
    /\ ~bIsAsyncScanningInProgress
    /\ ~bScanCancelled
    /\ scansInFlight = 0

----------------------------------------------------------------------------
(* File-watcher manager: source file notifications and the native-type     *)
(* check                                                                    *)

\* seconds CheckNativeTypesChanges lets pass between two checks
CheckInterval == 5

\* seconds OnDirectoryChanged delays the check by when a world is at hand
CheckDelay == 2

\* FString comparison and FString::Contains ignore case
LowerChar(c) ==
    IF c = "A" THEN "a" ELSE IF c = "H" THEN "h" ELSE IF c = "S" THEN "s" ELSE c

ToLower(s) == [i \in 1..Len(s) |-> LowerChar(s[i])]

\* FString::Contains(SubStr), ESearchCase::IgnoreCase
Contains(s, SubStr) ==
    \E i \in 1..(Len(s) - Len(SubStr) + 1) :
        SubSeq(ToLower(s), i, i + Len(SubStr) - 1) = ToLower(SubStr)

\* FPaths::GetCleanFilename: what follows the last '/'
GetCleanFilename(Path) == Mid(Path, FindLastChar(Path, "/"))

\* FPaths::GetExtension: what follows the last '.', nothing without one
GetExtension(FileName) ==
    IF FindLastChar(FileName, ".") = 0 THEN Empty ELSE Mid(FileName, FindLastChar(FileName, "."))

\* the body of the loop of OnDirectoryChanged for one FFileChangeData
IsRelevantChange(Filename) ==
    LET FileName == GetCleanFilename(Filename)
        Extension == ToLower(GetExtension(FileName))
    IN  /\ Extension \in {<<"h">>, <<"c", "p", "p">>, <<"h", "p", "p">>}
        /\ ~(Contains(FileName, <<"~">>) \/ Contains(FileName, <<".", "t", "m", "p">>))

\* bHasRelevantChanges after the loop
HasRelevantChanges(FileChanges) == \E i \in 1..Len(FileChanges) : IsRelevantChange(FileChanges[i])

\* the notifications followed: no file change; S/A.h; S/A.H; S/A.txt; the
\* temporary S/A.tmp.h; A.hpp in a directory named ~s; the editor backup
\* S/A.h~ alone and followed by S/A.cpp
Notifications ==
    {<<>>,
     << <<"S", "/", "A", ".", "h">> >>,
     << <<"S", "/", "A", ".", "H">> >>,
     << <<"S", "/", "A", ".", "t", "x", "t">> >>,
     << <<"S", "/", "A", ".", "t", "m", "p", ".", "h">> >>,
     << <<"~", "s", "/", "A", ".", "h", "p", "p">> >>,
     << <<"S", "/", "A", ".", "h", "~">> >>,
     << <<"S", "/", "A", ".", "h", "~">>, <<"S", "/", "A", ".", "c", "p", "p">> >>}

\* the members and statics CheckNativeTypesChanges reads and writes; passed
\* records whether the call got past the throttle
FW_Watch ==
    [M |-> FW_Mgr,
     LastNativeTypesCheckTime |-> LastNativeTypesCheckTime,
     LastNativeTypesCount |-> LastNativeTypesCount,
     bFirstCheck |-> bFirstCheck,
     passed |-> FALSE]

\* the loop of CheckNativeTypesChanges over the collected types
RECURSIVE FW_MarkCollectedTypes(_, _)
FW_MarkCollectedTypes(Pending, Fields) ==
    IF Fields = <<>>
    THEN Pending
    ELSE FW_MarkCollectedTypes(IF IsValidFieldForExport(Head(Fields))
                               THEN AddUnique(Pending, Head(Fields))
                               ELSE Pending,
                               Tail(Fields))

\* A plausible slip: no first-check flag, so that the first check compares
\* the collected count with the initial -1.
FW_CheckNativeTypesChanges_NoFirstCheck(W, CurrentTime) ==
    IF CurrentTime - W.LastNativeTypesCheckTime < CheckInterval
    THEN W
    ELSE LET W1 == [W EXCEPT !.LastNativeTypesCheckTime = CurrentTime, !.passed = TRUE,
                             !.bFirstCheck = FALSE]
             Num == Len(CollectNativeTypes)
         IN  IF Num # W1.LastNativeTypesCount
             THEN LET W2 == [W1 EXCEPT !.LastNativeTypesCount = Num]
                  IN  IF Num > W1.LastNativeTypesCount
                      THEN [W2 EXCEPT !.M.PendingNativeTypes =
                                            FW_MarkCollectedTypes(@, CollectNativeTypes)]
                      ELSE W2
             ELSE W1

\* CheckNativeTypesChanges called at CurrentTime
FW_CheckNativeTypesChanges(W, CurrentTime) ==
    IF CurrentTime - W.LastNativeTypesCheckTime < CheckInterval
    THEN W
    ELSE LET W1 == [W EXCEPT !.LastNativeTypesCheckTime = CurrentTime, !.passed = TRUE]
             Num == Len(CollectNativeTypes)
         IN  IF W1.bFirstCheck
             THEN [W1 EXCEPT !.LastNativeTypesCount = Num, !.bFirstCheck = FALSE]
             ELSE IF Num # W1.LastNativeTypesCount
                  THEN LET OldCount == W1.LastNativeTypesCount
                           W2 == [W1 EXCEPT !.LastNativeTypesCount = Num]
                       IN  IF Num > OldCount
                           THEN [W2 EXCEPT !.M.PendingNativeTypes =
                                                FW_MarkCollectedTypes(@, CollectNativeTypes)]
                           ELSE W2
                  ELSE W1

\* a call of CheckNativeTypesChanges and what is observed of it
FW_RunCheck ==
    \E W \in {FW_CheckNativeTypesChanges(FW_Watch, now)} :
        /\ FW_Commit(W.M)
        /\ LastNativeTypesCheckTime' = W.LastNativeTypesCheckTime
        /\ LastNativeTypesCount' = W.LastNativeTypesCount
        /\ bFirstCheck' = W.bFirstCheck
        /\ prevCheck' = IF W.passed
                        THEN [at |-> now, count |-> Len(CollectNativeTypes)]
                        ELSE prevCheck
        /\ uncheckedChange' = (uncheckedChange /\ ~W.passed)
        /\ last' = [op |-> "check", passed |-> W.passed,
                    count |-> Len(CollectNativeTypes)] @@ NoOp

\* OnDirectoryChanged: the directory watcher reports FileChanges; WorldAtHand
\* is whether GEngine->GetWorld() gives a world
FW_OnDirectoryChanged ==
    /\ bInitialized
    /\ now + CheckDelay <= MaxSeconds
    /\ \E FileChanges \in Notifications, WorldAtHand \in BOOLEAN :
            IF ~HasRelevantChanges(FileChanges)
            THEN /\ last' = [op |-> "notified", relevant |-> FALSE] @@ NoOp
                 /\ UNCHANGED <<mgrVars, ExportedFilesCache, watchVars>>
            ELSE IF WorldAtHand
                 THEN /\ checkTimers' = checkTimers \cup {now + CheckDelay}
                      /\ uncheckedChange' = TRUE
                      /\ last' = [op |-> "notified", relevant |-> TRUE] @@ NoOp
                      /\ UNCHANGED <<mgrVars, ExportedFilesCache, LastNativeTypesCheckTime,
                                     LastNativeTypesCount, bFirstCheck, prevCheck>>
                 ELSE /\ \E W \in {FW_CheckNativeTypesChanges(FW_Watch, now)} :
                            /\ FW_Commit(W.M)
                            /\ LastNativeTypesCheckTime' = W.LastNativeTypesCheckTime
                            /\ LastNativeTypesCount' = W.LastNativeTypesCount
                            /\ bFirstCheck' = W.bFirstCheck
                            /\ prevCheck' = IF W.passed
                                            THEN [at |-> now, count |-> Len(CollectNativeTypes)]
                                            ELSE prevCheck
                            /\ uncheckedChange' = ~W.passed
                            /\ last' = [op |-> "check", passed |-> W.passed,
                                        count |-> Len(CollectNativeTypes)] @@ NoOp
                      /\ UNCHANGED checkTimers
    /\ UNCHANGED <<taskVars, host, idem, FileComparisonMethod, fileTime, fnVars>>

\* a one-shot timer set by OnDirectoryChanged is due: its lambda calls
\* CheckNativeTypesChanges
FW_CheckTimerFires ==
    /\ \E Due \in checkTimers :
            /\ Due <= now
            /\ checkTimers' = checkTimers \ {Due}
    /\ FW_RunCheck
    /\ UNCHANGED <<taskVars, host, idem, FileComparisonMethod, fileTime, fnVars>>

\* FPlatformTime::Seconds() is one second further on; the timer manager
\* ticks every frame, so that a timer fires within the second it is due in
Second ==
    /\ now < MaxSeconds
    /\ \A Due \in checkTimers : Due > now
    /\ now' = now + 1
    /\ last' = NoOp
    /\ UNCHANGED <<mgrVars, taskVars, settingVars, configFile, diskWritable, files, typeShape,
                   typeLife, envChanges, idem, fwVars, fnVars>>

\* a module is loaded and registers its reflected type
LoadModule ==
    /\ HostStep
    /\ T3 \notin DOMAIN typeLife
    /\ typeLife' = typeLife @@ (T3 :> "live")
    /\ typeShape' = typeShape @@ (T3 :> 1)
    /\ idem' = "none"
    /\ UNCHANGED <<settingVars, configFile, diskWritable, files, now>>

\* the module of /Script/E.W is unloaded: its type is destroyed and reclaimed
UnloadModule ==
    /\ T3 \in DOMAIN typeLife
    /\ typeLife[T3] = "live"
    /\ typeLife' = [typeLife EXCEPT ![T3] = "gone"]
    /\ last' = NoOp
    /\ idem' = "none"
    /\ UNCHANGED <<mgrVars, taskVars, settingVars, configFile, diskWritable, files, typeShape,
                   now, envChanges, otherVars>>

\* the editor has started; the module of /Script/E.W is not loaded yet
InitWatcher ==
    /\ InitManager
    /\ InitFramed
    /\ InitFw
    /\ InitFn
    /\ bExportBlueprintFiles = FALSE
    /\ bAutoStartScanOnStartup = FALSE
    /\ diskWritable = TRUE
    /\ files = [p \in PackageNames |-> Present(1)]
    /\ typeShape = [t \in Types |-> 1]
    /\ typeLife = [t \in Types |-> "live"]
    /\ now = 0
    /\ envChanges = 0
    /\ configFile = AbsentConfigFile
    /\ cacheFile = FW_AbsentCacheFile

NextWatcher ==
    \/ FW_Initialize
    \/ FW_Deinitialize
    \/ FW_OnDirectoryChanged
    \/ FW_CheckTimerFires
    \/ Second
    \/ LoadModule
    \/ UnloadModule

SpecWatcher == InitWatcher /\ [][NextWatcher]_vars

\* C37: CheckNativeTypesChanges adds nothing to the pending types on the
\* first check of the process that passes the throttle; a later check adds
\* types only when it collects strictly more types than the previous check
\* recorded; a call made less than 5 seconds after the previous check
\* changes nothing of the manager.
C37_CheckAddsOnlyOnIncrease ==
    [][last'.op = "check" =>
            /\ prevCheck = NoCheck => PendingNativeTypes' = PendingNativeTypes
            /\ PendingNativeTypes' # PendingNativeTypes =>
                    (prevCheck # NoCheck /\ last'.count > prevCheck.count)
            /\ (prevCheck # NoCheck /\ now - prevCheck.at < 5) =>
                    UNCHANGED <<mgrVars, ExportedFilesCache, LastNativeTypesCheckTime,
                                LastNativeTypesCount, bFirstCheck>>]_vars

\* a module was loaded after a check had recorded one type, and the next
\* check that passed the throttle has marked both types
C37_Witness ==
    /\ last.op = "check"
    /\ last.passed
    /\ last.count = 2
    /\ prevCheck.count = 2
    /\ LastNativeTypesCount = 2
    /\ PendingNativeTypes = <<T1, T3>>
    /\ ~bFirstCheck

\* the timers fire once they are due and the clock goes on
SpecWatcherFair ==
    /\ InitWatcher
    /\ [][NextWatcher]_vars
    /\ WF_vars(FW_CheckTimerFires)
    /\ WF_vars(Second)

\* C36: every directory-change notification that contains a non-temporary
\* .h, .cpp or .hpp file is eventually followed by a native-type check that
\* passes the 5-second throttle and compares the current type count.
C36_ChangeIsEventuallyChecked == uncheckedChange ~> ~uncheckedChange

----------------------------------------------------------------------------
(* The memoized fingerprints and their timestamps over a session           *)

\* the memo of a session: both types are loaded when the editor starts; scans
\* and drains fill the memo, a module is unloaded, expiry periods elapse
InitMemoKeys ==
    /\ InitManager
    /\ InitFramed
    /\ InitFw
    /\ InitFn
    /\ bExportBlueprintFiles = FALSE
    /\ bAutoStartScanOnStartup = FALSE
    /\ diskWritable = TRUE
    /\ files = [p \in PackageNames |-> Present(1)]
    /\ typeShape = [t \in {T1, T3} |-> 1]
    /\ typeLife = [t \in {T1, T3} |-> "live"]
    /\ now = 0
    /\ envChanges = 0
    /\ configFile = AbsentConfigFile
    /\ cacheFile = SeededCacheFile

\* FPlatformTime::Seconds() is one expiry period further on
ExpiryPeriod ==
    /\ now < MaxExpiryPeriods * TickSeconds
    /\ now' = now + TickSeconds
    /\ last' = NoOp
    /\ UNCHANGED <<mgrVars, taskVars, settingVars, configFile, diskWritable, files, typeShape,
                   typeLife, envChanges, idem, otherVars>>

NextMemoKeys ==
    \/ Initialize
    \/ Deinitialize
    \/ ScanExistingAssets
    \/ BackgroundScan
    \/ OnAsyncScanCompleted
    \/ OnExportConfirmed
    \/ UnloadModule
    \/ ExpiryPeriod

SpecMemoKeys == InitMemoKeys /\ [][NextMemoKeys]_vars

\* C38: in every reachable state the memoized fingerprint map and its
\* timestamp map have exactly the same key set: every insert, purge and
\* shutdown step adds or removes a key in both maps together.
C38_MemoMapsShareKeys ==
    /\ [](DOMAIN FieldHashCache = DOMAIN FieldHashCacheTimestamp)
    /\ [][\A k \in DOMAIN typeLife :
                (k \in DOMAIN FieldHashCache' <=> k \in DOMAIN FieldHashCache) <=>
                (k \in DOMAIN FieldHashCacheTimestamp' <=> k \in DOMAIN FieldHashCacheTimestamp)]_vars

\* both types were memoized at time 0, /Script/E.W was unloaded, and a scan
\* two expiry periods later has purged both entries and memoized /Script/E.T
\* again
C38_Witness ==
    /\ bInitialized
    /\ now = 2 * HASH_CACHE_EXPIRE_TIME
    /\ typeLife[T3] = "gone"
    /\ DOMAIN FieldHashCache = {T1}
    /\ FieldHashCacheTimestamp = (T1 :> now)

====
